---------------------------- MODULE Spec2Model ----------------------------
(***************************************************************************)
(* Generated-code safety and execution engine of pandasai:                 *)
(*   CodeManager (helpers/code_manager.py): sanitizer, import resolver,    *)
(*     dependency selector, execution context builder, executor;           *)
(*   CodeExecution (pipelines/smart_datalake_chat/code_execution.py): the  *)
(*     bounded retry loop around CodeManager.execute_code.                 *)
(*                                                                         *)
(* A code unit is the sequence of its top-level statements.  A statement   *)
(* carries the fields of its ast node that the code inspects, the tokens   *)
(* of its source text as astor prints it (the sanitizer and the dependency *)
(* selector search that text), and what running it does.                   *)
(***************************************************************************)
EXTENDS Integers, Sequences, FiniteSets, TLC

\* ------------------------------------------------------------------ bounds
\* Longest code unit (top-level statements) given to execute_code.
MaxStmts == 2
\* Longest code unit given to the filter extractor.
MaxLines == 3
\* Most runs of the filter extractor on one code text.
MaxExtractions == 2
\* Largest configured max_retries.
MaxRetries == 3

\* ----------------------------------------------------------------- helpers
\* Python's `pat in text` on token sequences: pat occurs contiguously.
Contains(text, pat) ==
    \E i \in 0..(Len(text) - Len(pat)) :
        \A j \in 1..Len(pat) : text[i + j] = pat[j]

RECURSIVE Flatten(_)
Flatten(seqs) ==
    IF seqs = <<>> THEN <<>> ELSE Head(seqs) \o Flatten(Tail(seqs))

SeqsUpTo(S, n) == UNION {[1..k -> S] : k \in 0..n}

\* --------------------------------------------------------------- constants
\* pandasai/constants.py is not part of the sources at hand; the two
\* allow-lists are represented by a few of their members.
WHITELISTED_LIBRARIES == {"numpy", "matplotlib"}
WHITELISTED_BUILTINS == {"print", "getattr", "len"}

\* The methods _is_unsafe searches for, each after a ".".
UnsafeMethods ==
    {"to_csv", "to_excel", "to_json", "to_sql", "to_feather", "to_hdf",
     "to_parquet", "to_pickle", "to_gbq", "to_stata", "to_records",
     "to_latex", "to_html", "to_markdown", "to_clipboard"}

\* The tokens _is_jailbreak searches for in ast.dump(node).
DANGEROUS_BUILTINS == {"__subclasses__", "__builtins__", "__import__"}

\* Identifiers are token sequences, so that substring tests can be made.
ID_SQL_QUERY == <<"sql", "_", "query">>
ID_FINAL_SQL_QUERY == <<"final", "_", "sql", "_", "query">>
ID_DFS == <<"dfs">>
ID_RESULT == <<"result">>
ID_X == <<"x">>

\* Failure kinds.
BadImportError == "BadImportError"
MaliciousQueryError == "MaliciousQueryError"
InvalidConfigError == "InvalidConfigError"
NoResultFoundError == "NoResultFoundError"
RuntimeFailure == "RuntimeFailure"
InvalidLLMOutputType == "InvalidLLMOutputType"
CallbackFailure == "CallbackFailure"
NoFailure == "NoFailure"

NoValue == "NoValue"
None == "None"

\* -------------------------------------------------------------- statements
\* An operand of a comparison, or the value of an assignment, as the filter
\* extractor reads it: a base (a Name, a Constant, or another expression
\* such as a Call) under a chain of subscripts, innermost first.  A
\* subscript's slice is a Constant or a Name.
Slice(t, value) == [t |-> t, value |-> value]
Operand(t, id, slices) == [t |-> t, id |-> id, slices |-> slices]
NoOperand == Operand("None", "", <<>>)
\* left op right
Comparison(left, ops, comparators) ==
    [left |-> left, ops |-> ops, comparators |-> comparators]

\* compares: the ast.Compare nodes in the statement; value_op: the value of
\* an assignment as an operand.
Stmt(node, names, module, targets, value, fname, body, expr_calls, src, effect) ==
    [node |-> node, names |-> names, module |-> module, targets |-> targets,
     value |-> value, fname |-> fname, body |-> body,
     expr_calls |-> expr_calls, src |-> src, effect |-> effect,
     compares |-> <<>>, value_op |-> NoOperand]

Alias(name, asname) == [name |-> name, asname |-> asname]
Target(t, id) == [t |-> t, id |-> id]
\* An expression: its node type ("Str" for a str constant), and for a str
\* constant the table identifiers the SQL text refers to.
Value(t, tables) == [t |-> t, tables |-> tables]
NoVal == Value("None", {})
Eff(kind, val) == [kind |-> kind, val |-> val]
NoEff == Eff("none", NoValue)

ImportSrc(names) ==
    <<"import">> \o Flatten([i \in 1..Len(names) |-> names[i].name])
\* import a, b as c
Import(names) ==
    Stmt("Import", names, <<>>, <<>>, NoVal, "", <<>>, {}, ImportSrc(names), NoEff)
\* from module import a, b as c
ImportFrom(module, names) ==
    Stmt("ImportFrom", names, module, <<>>, NoVal, "", <<>>, {},
         <<"from">> \o module \o ImportSrc(names), NoEff)
\* t1 = t2 = value
Assign(targets, value, valsrc, effect) ==
    Stmt("Assign", <<>>, <<>>, targets, value, "", <<>>, {},
         Flatten([i \in 1..Len(targets) |-> targets[i].id \o <<"=">>]) \o valsrc,
         effect)
\* target op= value
AugAssign(target, valsrc, effect) ==
    Stmt("AugAssign", <<>>, <<>>, <<target>>, Value("List", {}), "", <<>>, {},
         target.id \o <<"+=">> \o valsrc, effect)
\* a bare expression statement
Expr(src, expr_calls, effect) ==
    Stmt("Expr", <<>>, <<>>, <<>>, Value("Call", {}), "", <<>>, expr_calls, src, effect)
\* def fname(): body
FunctionDef(fname, body) ==
    Stmt("FunctionDef", <<>>, <<>>, <<>>, NoVal, fname, body,
         UNION {body[i].expr_calls : i \in 1..Len(body)},
         <<"def", fname, "(", ")", ":">> \o Flatten([i \in 1..Len(body) |-> body[i].src]),
         NoEff)

StrConst(tables) == Value("Str", tables)
SqlSrc(tables) == <<"'", "SELECT", "*", "FROM">> \o tables \o <<"'">>

\* import os
S_ImportOs == Import(<<Alias(<<"os">>, "")>>)
\* import pandas, os
S_ImportPandasOs == Import(<<Alias(<<"pandas">>, ""), Alias(<<"os">>, "")>>)
\* import numpy as np
S_ImportNumpy == Import(<<Alias(<<"numpy">>, "np")>>)
\* import numpy as result
S_ImportAsResult == Import(<<Alias(<<"numpy">>, "result")>>)
\* from os import system
S_FromOsImport == ImportFrom(<<"os">>, <<Alias(<<"system">>, "")>>)
\* dfs = []
S_DfsAssign ==
    Assign(<<Target("Name", ID_DFS)>>, Value("List", {}), <<"[", "]">>, Eff("dfs", NoValue))
\* x = dfs = []
S_DfsChained ==
    Assign(<<Target("Name", ID_X), Target("Name", ID_DFS)>>, Value("List", {}),
           <<"[", "]">>, Eff("dfs", NoValue))
\* dfs += [1]
S_DfsAug == AugAssign(Target("Name", ID_DFS), <<"[", "1", "]">>, Eff("dfs", NoValue))
\* dfs[0].<method>('out')
ExportCall(m) ==
    Expr(<<"dfs", "[", "0", "]", ".", m, "(", "'", "out", "'", ")">>, {}, Eff("export", NoValue))
\* def save(): dfs[0].to_excel('out')
S_DefExport == FunctionDef("save", <<ExportCall("to_excel")>>)
\* sql_query = 'SELECT * FROM secrets'
S_SqlSecrets ==
    Assign(<<Target("Name", ID_SQL_QUERY)>>, StrConst({"secrets"}),
           SqlSrc(<<"secrets">>), NoEff)
\* sql_query = 'SELECT * FROM orders'
S_SqlOrders ==
    Assign(<<Target("Name", ID_SQL_QUERY)>>, StrConst({"orders"}),
           SqlSrc(<<"orders">>), NoEff)
\* final_sql_query = 'SELECT * FROM secrets'
S_FinalSqlSecrets ==
    Assign(<<Target("Name", ID_FINAL_SQL_QUERY)>>, StrConst({"secrets"}),
           SqlSrc(<<"secrets">>), NoEff)
\* result = execute_sql_query('SELECT * FROM secrets')
S_ResultSqlCall ==
    Assign(<<Target("Name", ID_RESULT)>>, Value("Call", {}),
           <<"execute_sql_query", "(">> \o SqlSrc(<<"secrets">>) \o <<")">>,
           Eff("sqlresult", "rows"))
\* result = dfs[0]
S_Result ==
    [Assign(<<Target("Name", ID_RESULT)>>, Value("Subscript", {}),
            <<"dfs", "[", "0", "]">>, Eff("result", "table"))
        EXCEPT !.value_op = Operand("Name", "dfs", <<Slice("Constant", "0")>>)]
\* result = 1
S_ResultOne ==
    Assign(<<Target("Name", ID_RESULT)>>, Value("Num", {}), <<"1">>, Eff("result", "1"))
\* x = 1 / 0
S_Raise ==
    Assign(<<Target("Name", ID_X)>>, Value("BinOp", {}), <<"1", "/", "0">>,
           Eff("raise", NoValue))
\* x = 1
S_Plain == Assign(<<Target("Name", ID_X)>>, Value("Num", {}), <<"1">>, NoEff)
\* def execute_sql_query(): x = 1
S_DefSql == FunctionDef("execute_sql_query", <<S_Plain>>)
\* def load(): import os
S_DefImportOs == FunctionDef("load", <<S_ImportOs>>)

\* for target in iter: body
For(target, iter, body) ==
    Stmt("For", <<>>, <<>>, <<>>, NoVal, "", body,
         UNION {body[i].expr_calls : i \in 1..Len(body)},
         <<"for", target, "in", iter, ":">> \o Flatten([i \in 1..Len(body) |-> body[i].src]),
         NoEff)
\* result = <name>.<attr>
UseName(name, attr) ==
    Assign(<<Target("Name", ID_RESULT)>>, Value("Attribute", {}), <<name, ".", attr>>,
           Eff("uses", name))
\* result = numpy.pi
S_UseNumpy == UseName("numpy", "pi")
\* result = np.pi
S_UseNp == UseName("np", "pi")
\* result = scipy.pi
S_UseScipy == UseName("scipy", "pi")
\* import numpy
S_ImportNumpyPlain == Import(<<Alias(<<"numpy">>, "")>>)
\* result = dfs[1]
S_ResultSecond ==
    [Assign(<<Target("Name", ID_RESULT)>>, Value("Subscript", {}),
            <<"dfs", "[", "1", "]">>, Eff("item", 2))
        EXCEPT !.value_op = Operand("Name", "dfs", <<Slice("Constant", "1")>>)]
\* result = pd.concat(dfs)
S_Concat ==
    Assign(<<Target("Name", ID_RESULT)>>, Value("Call", {}),
           <<"pd", ".", "concat", "(", "dfs", ")">>, Eff("result", "table"))
\* for df in dfs: x = 1
S_ForDf == For("df", "dfs", <<S_Plain>>)
\* plot_salaries()
S_SkillExpr == Expr(<<"plot_salaries", "(", ")">>, {"plot_salaries"}, Eff("uses", "plot_salaries"))
\* result = plot_salaries()
S_SkillAssign ==
    Assign(<<Target("Name", ID_RESULT)>>, Value("Call", {}),
           <<"plot_salaries", "(", ")">>, Eff("uses", "plot_salaries"))
\* print(plot_salaries()): the expression statement's call is print(...)
S_SkillNested ==
    Expr(<<"print", "(", "plot_salaries", "(", ")", ")">>, {"print"},
         Eff("uses", "plot_salaries"))
\* def chart(): plot_salaries()
S_DefSkill == FunctionDef("chart", <<S_SkillExpr>>)
\* import numpy, matplotlib
S_ImportNumpyMatplotlib ==
    Import(<<Alias(<<"numpy">>, ""), Alias(<<"matplotlib">>, "")>>)
\* from numpy import array
S_FromNumpyArray == ImportFrom(<<"numpy">>, <<Alias(<<"array">>, "")>>)
\* from matplotlib import pyplot as plt
S_FromMatplotlib == ImportFrom(<<"matplotlib">>, <<Alias(<<"pyplot">>, "plt")>>)
\* import matplotlib.pyplot as plt
S_ImportPyplot == Import(<<Alias(<<"matplotlib", "pyplot">>, "plt")>>)
\* import pandas as pd
S_ImportPandas == Import(<<Alias(<<"pandas">>, "pd")>>)
\* import numpy as pd
S_ImportNumpyAsPd == Import(<<Alias(<<"numpy">>, "pd")>>)
\* import numpy as dfs
S_ImportNumpyAsDfs == Import(<<Alias(<<"numpy">>, "dfs")>>)
\* import numpy as __builtins__
S_ImportNumpyAsBuiltins == Import(<<Alias(<<"numpy">>, "__builtins__")>>)
\* __import__('os')
S_CallImport ==
    Expr(<<"__import__", "(", "'", "os", "'", ")">>, {"__import__"}, Eff("reflect", NoValue))
\* x = ().__class__.__subclasses__()
S_Subclasses ==
    Assign(<<Target("Name", ID_X)>>, Value("Call", {}),
           <<"(", ")", ".", "__class__", ".", "__subclasses__", "(", ")">>,
           Eff("reflect", NoValue))
\* x = [__builtins__]
S_BuiltinsInList ==
    Assign(<<Target("Name", ID_X)>>, Value("List", {}), <<"[", "__builtins__", "]">>,
           Eff("reflect", NoValue))
\* x = '__import__'
S_TokenInString ==
    Assign(<<Target("Name", ID_X)>>, Value("Str", {}), <<"'", "__import__", "'">>, NoEff)
\* import __builtins__
S_ImportBuiltins == Import(<<Alias(<<"__builtins__">>, "")>>)
\* def analyze_data(): dfs = []; x = 1
S_DefComputeDfs == FunctionDef("analyze_data", <<S_DfsAssign, S_Plain>>)
\* def analyze_data(): x = 1; dfs[0].to_csv('out'); result = 1
S_DefComputeExport ==
    FunctionDef("analyze_data", <<S_Plain, ExportCall("to_csv"), S_ResultOne>>)
\* def analyze_data(): __import__('os'); x = 1
S_DefComputeReflect == FunctionDef("analyze_data", <<S_CallImport, S_Plain>>)
\* def analyze_data(): x = 1; result = 1
S_DefComputePlain == FunctionDef("analyze_data", <<S_Plain, S_ResultOne>>)


\* dfs[0]['salary'], df['price'], dfs[0][x]
DfsColumn(index, column) ==
    Operand("Name", "dfs", <<Slice("Constant", index), Slice("Constant", column)>>)
DfColumn(column) == Operand("Name", "df", <<Slice("Constant", column)>>)
DfsColumnByName == Operand("Name", "dfs", <<Slice("Constant", "0"), Slice("Name", "x")>>)
Constant(value) == Operand("Constant", value, <<>>)
CallOperand == Operand("Call", "", <<>>)
SalarySrc == <<"dfs", "[", "0", "]", "[", "'", "salary", "'", "]">>
\* target = dfs[0][dfs[0]['salary'] > 5]
FilterSalary(target, effect) ==
    [Assign(<<Target("Name", target)>>, Value("Subscript", {}),
            <<"dfs", "[", "0", "]", "[">> \o SalarySrc \o <<">", "5", "]">>, effect)
        EXCEPT !.compares = <<Comparison(DfsColumn("0", "salary"), <<"Gt">>, <<Constant("5")>>)>>]
\* result = dfs[0][dfs[0]['salary'] > 5]
S_FilterConst == FilterSalary(ID_RESULT, Eff("result", "matching rows"))
\* x = dfs[0][dfs[0]['salary'] > 5]
S_FilterX == FilterSalary(ID_X, NoEff)
\* result = len(dfs[0])
S_Count ==
    Assign(<<Target("Name", ID_RESULT)>>, Value("Call", {}),
           <<"len", "(", "dfs", "[", "0", "]", ")">>, Eff("count", 1))
\* result = dfs[0][dfs[0]['salary'] > dfs[0]['salary'].mean()]
S_FilterMean ==
    [Assign(<<Target("Name", ID_RESULT)>>, Value("Subscript", {}),
            <<"dfs", "[", "0", "]", "[">> \o SalarySrc \o <<">">> \o SalarySrc
                \o <<".", "mean", "(", ")", "]">>,
            Eff("result", "matching rows"))
        EXCEPT !.compares = <<Comparison(DfsColumn("0", "salary"), <<"Gt">>, <<CallOperand>>)>>]
\* result = dfs[0][dfs[0][x] == 5]
S_FilterVar ==
    [Assign(<<Target("Name", ID_RESULT)>>, Value("Subscript", {}),
            <<"dfs", "[", "0", "]", "[", "dfs", "[", "0", "]", "[", "x", "]", "==", "5", "]">>,
            Eff("var", "x"))
        EXCEPT !.compares = <<Comparison(DfsColumnByName, <<"Eq">>, <<Constant("5")>>)>>]
\* df = dfs[1]
S_AssignDf ==
    [Assign(<<Target("Name", <<"df">>)>>, Value("Subscript", {}),
            <<"dfs", "[", "1", "]">>, NoEff)
        EXCEPT !.value_op = Operand("Name", "dfs", <<Slice("Constant", "1")>>)]
\* result = df[df['price'] < 5]
S_FilterDf ==
    [Assign(<<Target("Name", ID_RESULT)>>, Value("Subscript", {}),
            <<"df", "[", "df", "[", "'", "price", "'", "]", "<", "5", "]">>,
            Eff("var", "df"))
        EXCEPT !.compares = <<Comparison(DfColumn("price"), <<"Lt">>, <<Constant("5")>>)>>]
\* dfs[0][dfs[0]['salary'] > 5].to_csv('out')
S_FilterToCsv ==
    [Expr(<<"dfs", "[", "0", "]", "[">> \o SalarySrc
              \o <<">", "5", "]", ".", "to_csv", "(", "'", "out", "'", ")">>,
          {}, Eff("export", NoValue))
        EXCEPT !.compares = <<Comparison(DfsColumn("0", "salary"), <<"Gt">>, <<Constant("5")>>)>>]
\* result = 5 > 1
S_ComparePlain ==
    [Assign(<<Target("Name", ID_RESULT)>>, Value("Compare", {}), <<"5", ">", "1">>,
            Eff("result", "1"))
        EXCEPT !.compares = <<Comparison(Constant("5"), <<"Gt">>, <<Constant("1")>>)>>]

\* ------------------------------------------------------------ data sources
\* A data source: its table name, whether it is an SQLConnector, and the
\* credentials SQLConnector.equals compares.
Source(name, sql, cred) == [name |-> name, sql |-> sql, cred |-> cred]
SRC_ORDERS == Source("orders", TRUE, "db1")
SRC_PRODUCTS == Source("products", TRUE, "db1")
SRC_SALES == Source("sales", FALSE, "none")
SRC_ORDER_DETAILS == Source("order_details", TRUE, "db1")
\* The source lists an engine is configured with: one source, two sources
\* of one database, and an SQL source next to a data frame in either order.
SourceLists ==
    {<<SRC_ORDERS>>, <<SRC_ORDERS, SRC_PRODUCTS>>, <<SRC_ORDERS, SRC_SALES>>,
     <<SRC_SALES, SRC_ORDERS>>}

\* SQLConnector.equals (connectors/sql.py): same connection credentials.
equals(a, b) == a.cred = b.cred

\* extract_table_names (helpers/sql.py): the table identifiers of the literal.
extract_table_names(value) == value.tables

\* SkillsManager.skill_exists (helpers/skills_manager.py).
skill_exists(skills, name) == name \in skills

\* --------------------------------------------------------------- sanitizer
\* CodeManager._replace_plot_png: every quoted *.png name becomes temp_chart.png.
PngNames == {"plot.png", "chart.png"}
_replace_plot_png(code) ==
    [i \in 1..Len(code) |->
        [code[i] EXCEPT !.src =
            [j \in 1..Len(@) |-> IF @[j] \in PngNames THEN "temp_chart.png" ELSE @[j]]]]

\* add_save_chart (helpers/save_chart.py): the temporary chart name becomes
\* the path charts are saved under.
add_save_chart(code) ==
    [i \in 1..Len(code) |->
        [code[i] EXCEPT !.src =
            [j \in 1..Len(@) |-> IF @[j] = "temp_chart.png" THEN "charts/temp_chart.png" ELSE @[j]]]]

\* CodeManager._is_df_overwrite
_is_df_overwrite(node) ==
    /\ node.node = "Assign"
    /\ node.targets[1].t = "Name"
    /\ node.targets[1].id = ID_DFS

\* _is_jailbreak searching for __import__ alone.
_is_jailbreak_import_only(node) ==
    \E i \in 1..Len(node.src) : node.src[i] = "__import__"
\* CodeManager._is_jailbreak: ast.dump(node) holds the identifiers and the
\* string constants of the statement, as its source text does.
_is_jailbreak(node) ==
    \E i \in 1..Len(node.src) : node.src[i] \in DANGEROUS_BUILTINS

\* _is_unsafe with a denylist of to_csv alone.
_is_unsafe_csv_only(node) == Contains(node.src, <<".", "to_csv">>)
\* CodeManager._is_unsafe
_is_unsafe(node) ==
    \E m \in UnsafeMethods : Contains(node.src, <<".", m>>)

\* CodeManager._validate_direct_sql: TRUE, FALSE, or raises InvalidConfigError.
AllSameSql(dfs) ==
    \A i \in 1..Len(dfs) : dfs[i].sql /\ equals(dfs[i], dfs[1])
_validate_direct_sql_raises(config, dfs) == config.direct_sql /\ ~AllSameSql(dfs)
_validate_direct_sql(config, dfs) == config.direct_sql /\ AllSameSql(dfs)

\* CodeManager.check_direct_sql_func_def_exists, when the validation it
\* starts with does not raise.
check_direct_sql_func_def_exists(node, config, dfs) ==
    /\ _validate_direct_sql(config, dfs)
    /\ node.node = "FunctionDef"
    /\ node.fname = "execute_sql_query"

\* CodeManager._get_sql_irrelevant_tables: `target.id in "sql_query"` is a
\* substring test of the target's name in the text "sql_query".
IsQueryTarget(target, value) ==
    /\ target.t = "Name"
    /\ Contains(ID_SQL_QUERY, target.id)
    /\ value.t = "Str"
_get_sql_irrelevant_tables(node, dfs) ==
    IF \E i \in 1..Len(node.targets) : IsQueryTarget(node.targets[i], node.value)
    THEN {t \in extract_table_names(node.value) :
             \A k \in 1..Len(dfs) : dfs[k].name # t}
    ELSE {}

\* CodeManager._check_imports: the library it raises BadImportError for
\* ("" when it returns) and the dependency records it appends.
ImportModule(node) ==
    IF node.node = "Import" THEN node.names[1].name ELSE node.module
ImportLibrary(node) == ImportModule(node)[1]
Dependency(module, name, alias) == [module |-> module, name |-> name, alias |-> alias]
_check_imports(node, config) ==
    LET module == ImportModule(node)
        library == ImportLibrary(node)
    IN  IF library = "pandas" THEN [raised |-> "", deps |-> <<>>]
        ELSE IF library \in WHITELISTED_LIBRARIES \cup config.custom_whitelisted_dependencies
        THEN [raised |-> "",
              deps |-> [i \in 1..Len(node.names) |->
                          Dependency(module, node.names[i].name,
                                     IF node.names[i].asname # ""
                                     THEN <<node.names[i].asname>>
                                     ELSE node.names[i].name)]]
        ELSE IF library \notin WHITELISTED_BUILTINS
        THEN [raised |-> library, deps |-> <<>>]
        ELSE [raised |-> "", deps |-> <<>>]

\* CodeManager.find_function_calls: the skills called in expression statements.
find_function_calls(node, skills) == {f \in node.expr_calls : skill_exists(skills, f)}

Failure(kind, arg) == [kind |-> kind, arg |-> arg]
\* What _extract_filters raises (AttributeError, ValueError).
FilterExtractionFailure == "FilterExtractionFailure"
NoError == Failure(NoFailure, {})

\* CodeManager._clean_code, the loop over tree.body from statement i on.
\* acc: the failure raised (NoError while none), new_body, the dependency
\* records appended to _additional_dependencies, and the used skills.
RECURSIVE _clean_code_from(_, _, _, _, _, _)
_clean_code_from(body, i, acc, config, dfs, skills) ==
    IF i > Len(body) THEN acc
    ELSE
    LET node == body[i]
        next(a) == _clean_code_from(body, i + 1, a, config, dfs, skills)
    IN  IF node.node \in {"Import", "ImportFrom"}
        THEN LET r == _check_imports(node, config)
                 a == [acc EXCEPT !.deps = @ \o r.deps]
             IN  IF r.raised # ""
                 THEN [a EXCEPT !.failure = Failure(BadImportError, {r.raised})]
                 ELSE next(a)
        ELSE IF _is_df_overwrite(node) \/ _is_jailbreak(node) \/ _is_unsafe(node)
        THEN next(acc)
        ELSE IF _validate_direct_sql_raises(config, dfs)
        THEN [acc EXCEPT !.failure = Failure(InvalidConfigError, {})]
        ELSE IF check_direct_sql_func_def_exists(node, config, dfs)
        THEN next(acc)
        ELSE IF /\ node.node = "Assign"
                /\ config.direct_sql
                /\ _get_sql_irrelevant_tables(node, dfs) # {}
        THEN [acc EXCEPT !.failure =
                 Failure(MaliciousQueryError, _get_sql_irrelevant_tables(node, dfs))]
        ELSE next([acc EXCEPT !.used = @ \cup find_function_calls(node, skills),
                              !.new_body = Append(@, node)])

\* _clean_code without line 359: the records of the call before stay.
KeepDependencies(mgr) == mgr.additional_dependencies
\* code_manager.py 359: self._additional_dependencies = []
ResetDependencies(mgr) == <<>>
\* execute_code without line 158: the skills of the call before stay.
KeepUsedSkills(mgr) == mgr.used_skills
\* code_manager.py 158: context.skills_manager.used_skills = []
ResetUsedSkills(mgr) == {}

\* CodeManager._clean_code on a manager whose skills record is mgr.used_skills.
_clean_code(code, config, dfs, skills, mgr) ==
    _clean_code_from(code, 1,
              [failure |-> NoError, new_body |-> <<>>,
               deps |-> ResetDependencies(mgr), used |-> mgr.used_skills],
              config, dfs, skills)

\* ------------------------------------------------- dependency selector
\* The text of a code unit: its statements' sources, one per line.
SourceText(body) == Flatten([i \in 1..Len(body) |-> body[i].src \o <<"\n">>])

Digits == <<"0", "1", "2", "3", "4">>

\* _required_dfs returning self._dfs whatever the code.
_required_dfs_all(code_text, dfs) == [i \in 1..Len(dfs) |-> TRUE]
\* CodeManager._required_dfs: for each source, whether it is needed.
_required_dfs(code_text, dfs) ==
    IF \/ Contains(code_text, <<"for", "df", "in", "dfs">>)
       \/ Contains(code_text, <<"pd", ".", "concat", "(", "dfs", ")">>)
    THEN [i \in 1..Len(dfs) |-> TRUE]
    ELSE [i \in 1..Len(dfs) |-> Contains(code_text, <<"dfs", "[", Digits[i], "]">>)]

\* -------------------------------------------------------- filter extractor
\* CodeManager._ast_comparator_map, on the names of the ast operator classes.
_ast_comparator_map ==
    [op \in {"Eq", "NotEq", "Lt", "LtE", "Gt", "GtE", "Is", "IsNot", "In", "NotIn"} |->
        CASE op = "Eq" -> "="
          [] op = "NotEq" -> "!="
          [] op = "Lt" -> "<"
          [] op = "LtE" -> "<="
          [] op = "Gt" -> ">"
          [] op = "GtE" -> ">="
          [] op = "Is" -> "is"
          [] op = "IsNot" -> "is not"
          [] op = "In" -> "in"
          [] op = "NotIn" -> "not in"]

\* CodeManager._tokenize_operand, consumed to its end: `slice.value` raises
\* AttributeError on a slice that is not a Constant; the tokens are the base
\* (of a Name or a Constant) and then the subscript constants.
_tokenize_operand(operand_node) ==
    [raised |-> \E k \in 1..Len(operand_node.slices) :
                    operand_node.slices[k].t # "Constant",
     tokens |-> (IF operand_node.t \in {"Name", "Constant"}
                 THEN <<operand_node.id>> ELSE <<>>)
                \o [k \in 1..Len(operand_node.slices) |-> operand_node.slices[k].value]]

\* `name, *slices = self._tokenize_operand(node)` and
\* `slices[-1] if slices else name`: the unpacking raises ValueError when
\* there is no token.
Unpack(operand_node) ==
    LET t == _tokenize_operand(operand_node)
    IN  [raised |-> t.raised \/ t.tokens = <<>>,
         name |-> IF t.tokens = <<>> THEN "" ELSE t.tokens[1],
         str |-> IF t.tokens = <<>> THEN "" ELSE t.tokens[Len(t.tokens)]]

\* The label of a source in the extractor's result.
DfLabel(index) == <<"dfs", "[", index, "]">>
NoLabel == <<>>

\* AssignmentVisitor (helpers/node_visitors.py): the ast.Assign nodes of the
\* tree, each with its line; a statement stands on the line of its position.
AssignNodes(stmt) ==
    IF stmt.node = "Assign" THEN <<stmt>>
    ELSE SelectSeq(stmt.body, LAMBDA b : b.node = "Assign")
Located(nodes, lineno) == [k \in 1..Len(nodes) |-> [lineno |-> lineno, node |-> nodes[k]]]
Assignments(code) ==
    Flatten([i \in 1..Len(code) |-> Located(AssignNodes(code[i]), i)])

\* ast.walk(tree), the ast.Compare nodes it meets, each with its line.  The
\* comparisons of a unit stand at one depth, so they are met in line order.
CompareNodes(stmt) ==
    stmt.compares \o Flatten([j \in 1..Len(stmt.body) |-> stmt.body[j].compares])
Comparisons(code) ==
    Flatten([i \in 1..Len(code) |-> Located(CompareNodes(code[i]), i)])

\* The test of _get_df_id_by_nearest_assignment (lines 536-540); an
\* AttributeError in it skips the assignment.
AssignsDfsItem(assignment, target_name) ==
    /\ assignment.value_op.t = "Name"
    /\ Len(assignment.value_op.slices) = 1
    /\ assignment.value_op.id = "dfs"
    /\ assignment.targets[1].t = "Name"
    /\ assignment.targets[1].id = <<target_name>>
    /\ assignment.value_op.slices[1].t = "Constant"

\* CodeManager._get_df_id_by_nearest_assignment: the loop from assignment k
\* on.  The label is returned when an assignment of a later line is met;
\* when the loop ends the function returns nothing.
RECURSIVE NearestFrom(_, _, _, _, _)
NearestFrom(assignments, k, nearest_assignment, current_lineno, target_name) ==
    IF k > Len(assignments) THEN NoLabel
    ELSE IF assignments[k].lineno > current_lineno THEN nearest_assignment
    ELSE IF AssignsDfsItem(assignments[k].node, target_name)
    THEN NearestFrom(assignments, k + 1,
                     DfLabel(assignments[k].node.value_op.slices[1].value),
                     current_lineno, target_name)
    ELSE NearestFrom(assignments, k + 1, nearest_assignment, current_lineno, target_name)
_get_df_id_by_nearest_assignment(current_lineno, assignments, target_name) ==
    NearestFrom(assignments, 1, NoLabel, current_lineno, target_name)

Pushdown(df, left, op, right) == [df |-> df, filter |-> <<left, op, right>>]
ExtractionRaised == [raised |-> TRUE, comparisons |-> <<>>]

\* CodeManager._extract_comparisons: the loop over the nodes from node k on.
RECURSIVE _extract_comparisons_from(_, _, _, _, _)
_extract_comparisons_from(nodes, k, current_df, comparisons, assignments) ==
    IF k > Len(nodes) THEN [raised |-> FALSE, comparisons |-> comparisons]
    ELSE
    LET node == nodes[k].node
        left == Unpack(node.left)
        found == _get_df_id_by_nearest_assignment(nodes[k].lineno, assignments, left.name)
        df == IF found # NoLabel THEN found ELSE current_df
        n == IF Len(node.ops) < Len(node.comparators)
             THEN Len(node.ops) ELSE Len(node.comparators)
        rights == [j \in 1..n |-> Unpack(node.comparators[j])]
    IN  IF node.left.slices = <<>>
        THEN _extract_comparisons_from(nodes, k + 1, current_df, comparisons, assignments)
        ELSE IF left.raised \/ \E j \in 1..n : rights[j].raised
        THEN ExtractionRaised
        ELSE _extract_comparisons_from(nodes, k + 1, df,
                 comparisons \o [j \in 1..n |->
                     Pushdown(df, left.str, _ast_comparator_map[node.ops[j]], rights[j].str)],
                 assignments)

\* The extractor with a result list that outlives the call.
_extract_comparisons_kept(tree, kept) ==
    _extract_comparisons_from(Comparisons(tree), 1, DfLabel("0"), kept, Assignments(tree))
\* CodeManager._extract_comparisons; `kept` is the result of the run before,
\* which a run does not read.
_extract_comparisons(tree, kept) ==
    _extract_comparisons_from(Comparisons(tree), 1, DfLabel("0"), <<>>, Assignments(tree))

\* CodeManager._extract_filters: re-raises what _extract_comparisons raises.
\* The text is one that ast.parse accepted in _clean_code.
_extract_filters(code, kept) == _extract_comparisons(code, kept)

\* extracted_filters.get(f"dfs[{index}]", [])
FiltersOf(comparisons, label) ==
    LET own == SelectSeq(comparisons, LAMBDA c : c.df = label)
    IN  [k \in 1..Len(own) |-> own[k].filter]

\* BaseConnector.set_additional_filters and execute (connectors): an SQL
\* connector loads the rows that satisfy the filters, any other connector
\* loads all its rows.
execute(df, filters) == IF df.sql /\ filters # <<>> THEN "filtered" ELSE "all"

\* A call execute_code makes, in the order of the calls: the sanitizer, a
\* method of source `index` (with the filters it is given), the executor.
Step(op, index, filters) == [op |-> op, index |-> index, filters |-> filters]
\* The two calls on a source with execute before set_additional_filters.
StepsOfSourceSwapped(index, filters) ==
    <<Step("execute", index, filters), Step("set_additional_filters", index, filters)>>
\* code_manager.py 213-214: df.set_additional_filters(filters); df.execute()
StepsOfSource(index, filters) ==
    <<Step("set_additional_filters", index, filters), Step("execute", index, filters)>>

\* CodeManager._get_originals: the table of each needed source, None for the
\* others; the filters set on each needed source and the rows it loaded.
\* The extractor runs once for each needed source and what it raises ends
\* the call.
_get_originals(required, dfs, current_code) ==
    LET extracted_filters == _extract_filters(current_code, <<>>)
        filters(i) == FiltersOf(extracted_filters.comparisons, DfLabel(Digits[i]))
    IN  IF extracted_filters.raised /\ \E i \in 1..Len(dfs) : required[i]
        THEN [raised |-> TRUE, dfs |-> <<>>, filters |-> <<>>, rows |-> <<>>,
              steps |-> <<>>]
        ELSE [raised |-> FALSE,
              steps |-> Flatten([i \in 1..Len(dfs) |->
                          IF required[i] THEN StepsOfSource(i, filters(i)) ELSE <<>>]),
              dfs |-> [i \in 1..Len(dfs) |-> IF required[i] THEN dfs[i].name ELSE None],
              filters |-> [i \in 1..Len(dfs) |-> IF required[i] THEN filters(i) ELSE <<>>],
              rows |-> [i \in 1..Len(dfs) |->
                          IF required[i] THEN execute(dfs[i], filters(i)) ELSE None]]
\* The sources _get_originals calls set_additional_filters and execute on.
Materialized(required) == {i \in 1..Len(required) : required[i]}

\* --------------------------------------------------- execution context
\* hasattr(import_dependency(module), name), for the libraries at hand:
\* the attributes a module has among the names the code units import.
ModuleAttrs == {<<<<"numpy">>, <<"array">>>>, <<<<"matplotlib">>, <<"pyplot">>>>}
hasattr(module, name) == <<module, name>> \in ModuleAttrs

\* What _get_environment binds for a dependency record: the attribute of
\* the module when the module has it, the module otherwise.
Attribute(module, name) == [module |-> module, attr |-> name]
Module(module) == [module |-> module, attr |-> <<>>]
ImportedValue(lib) ==
    IF hasattr(lib.module, lib.name) THEN Attribute(lib.module, lib.name)
    ELSE Module(lib.module)

\* CodeManager._get_environment: pd, the recorded dependencies under their
\* aliases (a later record, and a later key of the dict, wins), the safe builtins.
_get_environment(deps) ==
    [pd |-> IF \E i \in 1..Len(deps) : deps[i].alias = <<"pd">> THEN "alias" ELSE "pandas",
     aliases |-> {deps[i].alias : i \in 1..Len(deps)},
     libs |-> [a \in {deps[i].alias : i \in 1..Len(deps)} |->
                 LET k == CHOOSE i \in 1..Len(deps) :
                              /\ deps[i].alias = a
                              /\ \A j \in 1..Len(deps) : deps[j].alias = a => j <= i
                 IN  ImportedValue(deps[k])],
     builtins |-> "WHITELISTED_BUILTINS",
     dfs |-> <<>>,
     filters |-> <<>>,
     rows |-> <<>>,
     execute_sql_query |-> None,
     skills |-> {},
     result |-> IF \E i \in 1..Len(deps) : deps[i].alias = ID_RESULT
                THEN "module" ELSE NoValue,
     exported |-> FALSE]

\* An environment kept from one call to the next: the binding of result an
\* earlier run left is still in it.
BuildEnvironmentReused(originals, deps, used, config, dfs) ==
    [_get_environment(deps) EXCEPT
        !.dfs = originals.dfs,
        !.filters = originals.filters,
        !.rows = originals.rows,
        !.execute_sql_query = IF config.direct_sql THEN dfs[1].name ELSE None,
        !.skills = used,
        !.result = "left over"]
\* The environment execute_code hands to exec (code_manager.py 173-184).
BuildEnvironment(originals, deps, used, config, dfs) ==
    [_get_environment(deps) EXCEPT
        !.dfs = originals.dfs,
        !.filters = originals.filters,
        !.rows = originals.rows,
        !.execute_sql_query = IF config.direct_sql THEN dfs[1].name ELSE None,
        !.skills = used]
NoEnvironment == _get_environment(<<>>)

\* ---------------------------------------------------------------- executor
\* exec(code_to_run, environment): the statements run in order until one raises.
\* A statement with effect "uses" evaluates a global name and binds result;
\* the name is resolved among the keys of the environment.
Resolves(env, name) == name = "pd" \/ <<name>> \in env.aliases \/ name \in env.skills
RECURSIVE ExecFrom(_, _, _)
ExecFrom(body, i, env) ==
    IF i > Len(body) THEN [raised |-> FALSE, unresolved |-> {}, env |-> env]
    ELSE
    LET eff == body[i].effect IN
        CASE eff.kind = "raise" -> [raised |-> TRUE, unresolved |-> {}, env |-> env]
          [] eff.kind = "result" -> ExecFrom(body, i + 1, [env EXCEPT !.result = eff.val])
          [] eff.kind = "uses" ->
                IF Resolves(env, eff.val)
                THEN ExecFrom(body, i + 1, [env EXCEPT !.result = "1"])
                ELSE [raised |-> TRUE, unresolved |-> {eff.val}, env |-> env]
          [] eff.kind = "count" ->
                ExecFrom(body, i + 1, [env EXCEPT !.result = env.rows[eff.val]])
          [] eff.kind = "var" ->
                IF \E j \in 1..(i - 1) :
                      /\ body[j].node = "Assign"
                      /\ \E t \in 1..Len(body[j].targets) : body[j].targets[t].id = <<eff.val>>
                THEN ExecFrom(body, i + 1, [env EXCEPT !.result = "matching rows"])
                ELSE [raised |-> TRUE, unresolved |-> {eff.val}, env |-> env]
          [] eff.kind = "item" ->
                IF eff.val > Len(env.dfs)
                THEN [raised |-> TRUE, unresolved |-> {}, env |-> env]
                ELSE ExecFrom(body, i + 1, [env EXCEPT !.result = env.dfs[eff.val]])
          [] eff.kind = "sqlresult" ->
                IF env.execute_sql_query = None
                THEN [raised |-> TRUE, unresolved |-> {}, env |-> env]
                ELSE ExecFrom(body, i + 1, [env EXCEPT !.result = eff.val])
          [] eff.kind = "dfs" -> ExecFrom(body, i + 1, [env EXCEPT !.dfs = <<"overwritten">>])
          [] eff.kind = "export" -> ExecFrom(body, i + 1, [env EXCEPT !.exported = TRUE])
          [] OTHER -> ExecFrom(body, i + 1, env)

Ok(value) == [kind |-> "ok", arg |-> {value}]

\* last_code_executed set to the code as it was given.
LastCodeGiven(code, code_to_run) == code
\* code_manager.py 162: self.last_code_executed = code_to_run
LastCodeExecuted(code, code_to_run) == code_to_run

\* environment.get("result"): a run without the binding returns None.
ResultOrNone(env) == Ok(IF env.result = NoValue THEN None ELSE env.result)
\* code_manager.py 190-193: the value bound to result, or NoResultFoundError.
ResultOf(env) ==
    IF env.result = NoValue THEN Failure(NoResultFoundError, {}) ELSE Ok(env.result)

\* One call of CodeManager.execute_code: what it raises or returns, whether
\* exec was invoked and with which code and environment, and the state it
\* leaves in the manager and the skills record.
execute_code(code, config, dfs, skills, mgr) ==
    LET replaced == _replace_plot_png(code)
        with_chart == add_save_chart(replaced)
        clean == _clean_code(with_chart, config, dfs, skills,
                             [mgr EXCEPT !.used_skills = ResetUsedSkills(mgr)])
        required == _required_dfs(SourceText(clean.new_body), dfs)
        originals == _get_originals(required, dfs, replaced)
        env == BuildEnvironment(originals, clean.deps, clean.used, config, dfs)
        run == ExecFrom(clean.new_body, 1, env)
        unrun == [sanitized |-> FALSE,
                  executed |-> FALSE,
                  exec_runs |-> 0,
                  first_unresolved |-> {},
                  materialized |-> {},
                  completed |-> FALSE,
                  code_to_run |-> <<>>,
                  steps |-> <<>>,
                  environment |-> NoEnvironment,
                  env_after |-> NoEnvironment,
                  additional_dependencies |-> clean.deps,
                  current_code_executed |-> replaced,
                  used_skills |-> clean.used]
    IN  IF clean.failure # NoError
        THEN \* _clean_code raised (line 161)
             [outcome |-> clean.failure,
              last_code_executed |-> mgr.last_code_executed] @@ unrun
        ELSE IF originals.raised
        THEN \* _get_originals raised (line 175)
             [outcome |-> Failure(FilterExtractionFailure, {}),
              last_code_executed |-> LastCodeExecuted(code, clean.new_body)]
             @@ [unrun EXCEPT !.sanitized = TRUE, !.code_to_run = clean.new_body,
                              !.steps = <<Step("_clean_code", 0, <<>>)>>]
        ELSE [outcome |-> IF run.raised THEN Failure(RuntimeFailure, run.unresolved)
                          ELSE ResultOf(run.env),
              sanitized |-> TRUE,
              executed |-> TRUE,
              exec_runs |-> 1,
              first_unresolved |-> run.unresolved,
              materialized |-> Materialized(required),
              completed |-> ~run.raised,
              code_to_run |-> clean.new_body,
              steps |-> <<Step("_clean_code", 0, <<>>)>> \o originals.steps
                            \o <<Step("exec", 0, <<>>)>>,
              environment |-> env,
              env_after |-> run.env,
              additional_dependencies |-> clean.deps,
              current_code_executed |-> replaced,
              last_code_executed |-> LastCodeExecuted(code, clean.new_body),
              used_skills |-> clean.used]

\* None, the value of _current_code_executed and _last_code_executed before
\* the first call; no code text equals it.
NoCode == <<Stmt("None", <<>>, <<>>, <<>>, NoVal, "", <<>>, {}, <<>>, NoEff)>>

\* A CodeManager as constructed (lines 52, 65, 66), with the used_skills of
\* the SkillsManager of its context.
NewManager ==
    [last_code_executed |-> NoCode,
     current_code_executed |-> NoCode,
     additional_dependencies |-> <<>>,
     used_skills |-> {}]

\* The manager and the skills record as a call of execute_code leaves them.
ManagerAfter(call) ==
    [last_code_executed |-> call.last_code_executed,
     current_code_executed |-> call.current_code_executed,
     additional_dependencies |-> call.additional_dependencies,
     used_skills |-> call.used_skills]

NoCall ==
    [outcome |-> NoError, sanitized |-> FALSE, executed |-> FALSE, exec_runs |-> 0,
     completed |-> FALSE, first_unresolved |-> {}, materialized |-> {},
     code_to_run |-> <<>>, steps |-> <<>>,
     environment |-> NoEnvironment, env_after |-> NoEnvironment,
     additional_dependencies |-> <<>>, current_code_executed |-> NoCode,
     last_code_executed |-> NoCode, used_skills |-> {}]

\* ------------------------------------------------------------------- state
VARIABLES
    config,             \* Config: max_retries, use_error_correction_framework,
                        \* direct_sql, custom_whitelisted_dependencies
    dfs,                \* the configured data sources (context.dfs)
    on_failure,         \* whether CodeExecution was given a repair callback
    output_type_helper, \* context.get("output_type_helper"): "" when absent
    pc,                 \* position in CodeExecution.execute / execute_code
    code_to_run,        \* execute(): the code of the next attempt
    retry_count,        \* execute(): retry_count
    result,             \* execute(): result
    e,                  \* execute(): the failure caught by the except clause
    error,              \* the failure raised to the caller
    manager,            \* the CodeManager's state
    last,               \* the last execute_code call, as observed
    execCount,          \* number of execute_code calls made
    cbCount,            \* number of on_failure invocations made
    succeeded,          \* some attempt returned a value that passed validation
    firstFailure,       \* the failure of the first failed attempt
    sameFailure,        \* every failed attempt so far raised firstFailure
    policyMark,         \* <<execCount, cbCount>> when a policy failure was first
                        \* caught, <<0, 0>> before
    extracted,          \* the results of the _extract_filters runs made so far
    previous,           \* repeated calls: the manager before the latest call
    inv,                \* the execute_code invocations in flight on the manager
    agent,              \* the Agent: its memory and the operation in progress
    proxy               \* the DataframeProxy: its fields and the calls made on it

vars ==
    <<config, dfs, on_failure, output_type_helper, pc, code_to_run, retry_count,
      result, e, error, manager, last, execCount, cbCount, succeeded,
      firstFailure, sameFailure, policyMark, extracted, previous, inv, agent, proxy>>

\* The state of the specifications of overlapping and repeated calls, of
\* the Agent and of the DataframeProxy.
aux == <<extracted, previous, inv, agent, proxy>>

inputs == <<config, dfs, on_failure, output_type_helper>>

\* The skills registered with the SkillsManager.
Skills == {"plot_salaries"}

Config(max_retries, ecf, direct_sql, custom) ==
    [max_retries |-> max_retries,
     use_error_correction_framework |-> ecf,
     direct_sql |-> direct_sql,
     custom_whitelisted_dependencies |-> custom]

\* --------------------------------------------------- CodeExecution.execute
\* output_helper.validate(result) (helpers/output_types): the "number"
\* helper accepts numbers only.
validate(helper, value) == helper = "number" => value = "1"

\* The try block without lines 59-63: the result is not validated.
TryBlockUnvalidated(call, helper) ==
    IF call.outcome.kind # "ok" THEN call.outcome ELSE NoError

\* code_execution.py 57-64: the try block, as the failure it raises
\* (NoError when it reaches break).
TryBlock(call, helper) ==
    IF call.outcome.kind # "ok" THEN call.outcome
    ELSE IF helper # "" /\ ~validate(helper, CHOOSE v \in call.outcome.arg : TRUE)
    THEN Failure(InvalidLLMOutputType, {})
    ELSE NoError

\* The except clause with the bound compared as `retry_count >= max_retries`.
ReRaisesUpstream(cfg, count) ==
    \/ ~cfg.use_error_correction_framework
    \/ count >= cfg.max_retries
\* The except clause without the test of use_error_correction_framework.
ReRaisesOnlyAtMax(cfg, count) == count >= cfg.max_retries - 1
\* code_execution.py 67-70: whether the except clause re-raises.
ReRaises(cfg, count) ==
    \/ ~cfg.use_error_correction_framework
    \/ count >= cfg.max_retries - 1

\* A loop condition that never fails.
LoopRunsAlways(cfg, count) == TRUE
\* code_execution.py 55: the loop condition.
LoopRuns(cfg, count) == count < cfg.max_retries

\* One pass of the while body up to the call of _retry_run_code; `breaks`
\* is the break of line 64.
AttemptStep(breaks) ==
    /\ pc = "loop"
    /\ LoopRuns(config, retry_count)
    /\ \E call \in {execute_code(code_to_run, config, dfs, Skills, manager)} :
       LET failure == TryBlock(call, output_type_helper)
       IN  /\ last' = call
           /\ manager' = ManagerAfter(call)
           /\ execCount' = execCount + 1
           /\ result' = IF call.outcome.kind = "ok"
                        THEN CHOOSE v \in call.outcome.arg : TRUE
                        ELSE result
           /\ IF failure = NoError
              THEN /\ pc' = IF breaks THEN "returned" ELSE "loop"
                   /\ succeeded' = TRUE
                   /\ UNCHANGED <<e, error, retry_count, firstFailure, sameFailure,
                                  policyMark>>
              ELSE /\ e' = failure
                   /\ firstFailure' = IF firstFailure = NoError THEN failure ELSE firstFailure
                   /\ sameFailure' = (sameFailure /\ firstFailure \in {NoError, failure})
                   /\ policyMark' = IF /\ policyMark = <<0, 0>>
                                        /\ failure.kind \in {MaliciousQueryError, InvalidConfigError}
                                     THEN <<execCount + 1, cbCount>>
                                     ELSE policyMark
                   /\ UNCHANGED succeeded
                   /\ IF ReRaises(config, retry_count)
                      THEN /\ pc' = "raised"
                           /\ error' = failure
                           /\ UNCHANGED retry_count
                      ELSE /\ pc' = "repair"
                           /\ retry_count' = retry_count + 1
                           /\ UNCHANGED error
    /\ UNCHANGED <<inputs, code_to_run, cbCount, aux>>

\* The while body without its break.
AttemptNoBreak == AttemptStep(FALSE)
\* code_execution.py 55-73: one pass of the while body.
Attempt == AttemptStep(TRUE)

\* The loop condition fails: execute() returns its LogicUnitOutput.
LoopExit ==
    /\ pc = "loop"
    /\ ~LoopRuns(config, retry_count)
    /\ pc' = "returned"
    /\ UNCHANGED <<inputs, code_to_run, retry_count, result, e, error, manager, last,
                   execCount, cbCount, succeeded, firstFailure, sameFailure, policyMark,
                   aux>>

\* The codes a repair callback may return.
RetryCodes ==
    {<<>>, <<S_ResultOne>>, <<S_Result>>, <<S_Plain>>, <<S_Raise>>, <<S_ImportOs>>,
     <<S_SqlSecrets>>, <<S_ImportNumpy, S_ResultOne>>, <<S_ImportAsResult>>,
     <<S_FilterMean>>}

\* _retry_run_code with a callback: on_failure is invoked twice (lines 121
\* and 123) and the second value is the code of the next attempt.
RepairReturns ==
    /\ pc = "repair"
    /\ on_failure
    /\ \E new_code \in RetryCodes : code_to_run' = new_code
    /\ cbCount' = cbCount + 2
    /\ pc' = "loop"
    /\ UNCHANGED <<inputs, retry_count, result, e, error, manager, last, execCount,
                   succeeded, firstFailure, sameFailure, policyMark, aux>>

\* _retry_run_code: one of the two on_failure invocations raises.
RepairRaises ==
    /\ pc = "repair"
    /\ on_failure
    /\ \E n \in 1..2 : cbCount' = cbCount + n
    /\ pc' = "raised"
    /\ error' = Failure(CallbackFailure, {})
    /\ UNCHANGED <<inputs, code_to_run, retry_count, result, e, manager, last, execCount,
                   succeeded, firstFailure, sameFailure, policyMark, aux>>

\* _retry_run_code without a callback returning the code it was given.
RepairAbsentContinues ==
    /\ pc = "repair"
    /\ ~on_failure
    /\ pc' = "loop"
    /\ UNCHANGED <<inputs, code_to_run, retry_count, result, e, error, manager, last,
                   execCount, cbCount, succeeded, firstFailure, sameFailure, policyMark,
                   aux>>

\* _retry_run_code without a callback: raise e.
RepairAbsent ==
    /\ pc = "repair"
    /\ ~on_failure
    /\ pc' = "raised"
    /\ error' = e
    /\ UNCHANGED <<inputs, code_to_run, retry_count, result, e, manager, last, execCount,
                   cbCount, succeeded, firstFailure, sameFailure, policyMark, aux>>

RetrySourceLists == {<<SRC_ORDERS>>, <<SRC_ORDERS, SRC_SALES>>}

Init ==
    /\ config \in {Config(n, ecf, sql, {}) :
                      n \in 0..MaxRetries, ecf \in BOOLEAN, sql \in BOOLEAN}
    /\ dfs \in RetrySourceLists
    /\ on_failure \in BOOLEAN
    /\ output_type_helper \in {"", "number"}
    /\ pc = "loop"
    /\ code_to_run \in RetryCodes
    /\ retry_count = 0
    /\ result = None
    /\ e = NoError
    /\ error = NoError
    /\ manager = NewManager
    /\ last = NoCall
    /\ execCount = 0
    /\ cbCount = 0
    /\ succeeded = FALSE
    /\ firstFailure = NoError
    /\ sameFailure = TRUE
    /\ policyMark = <<0, 0>>
    /\ extracted = <<>>
    /\ previous = NewManager
    /\ inv = <<>>
    /\ agent = <<>>
    /\ proxy = <<>>

Next ==
    \/ Attempt
    \/ LoopExit
    \/ RepairReturns
    \/ RepairRaises
    \/ RepairAbsent

Spec == Init /\ [][Next]_vars

\* execute() is synchronous: execute_code and on_failure are called in the
\* caller's thread and each call returns or raises, so a step that is
\* enabled is taken.  Weak fairness of Attempt is written out, WF_v(A) being
\* []<>~ENABLED <<A>>_v \/ []<><<A>>_v, with the guard of Attempt (every
\* Attempt step adds one to execCount) for ENABLED <<Attempt>>_vars.
SpecLive ==
    /\ Init
    /\ [][Next]_vars
    /\ WF_vars(LoopExit \/ RepairReturns \/ RepairRaises \/ RepairAbsent)
    /\ ([]<>~(pc = "loop" /\ LoopRuns(config, retry_count)) \/ []<><<Attempt>>_vars)

\* ------------------------------------------- one call of execute_code
\* The statements code units are made of.
BaseStmts ==
    {S_ImportOs, S_ImportPandasOs, S_ImportNumpy, S_FromOsImport,
     S_DfsAssign, S_DfsChained, S_DfsAug, S_DefExport,
     S_SqlSecrets, S_SqlOrders, S_FinalSqlSecrets, S_ResultSqlCall,
     S_Result, S_Raise, S_DefSql, S_DefImportOs}
\* The statements put around a call of an export method.
SurroundStmts == {S_Result, S_Plain, S_ImportNumpy}

InsertAt(u, k, stmt) == SubSeq(u, 1, k) \o <<stmt>> \o SubSeq(u, k + 1, Len(u))

\* A call of each export method, at each position among other statements.
ExportUnits ==
    UNION {{InsertAt(u, k, ExportCall(m)) : m \in UnsafeMethods, k \in 0..Len(u)} :
              u \in SeqsUpTo(SurroundStmts, MaxStmts - 1)}

\* Statements that hold a token _is_jailbreak searches for.
ReflectionStmts ==
    {S_CallImport, S_Subclasses, S_BuiltinsInList, S_TokenInString, S_ImportBuiltins}
\* Definitions of analyze_data, with and without statements of the drop rules.
ComputeStmts ==
    {S_DefComputeDfs, S_DefComputeExport, S_DefComputeReflect, S_DefComputePlain}
\* One of these statements, at each position among other statements.
NestedUnits ==
    UNION {{InsertAt(u, k, stmt) : stmt \in ReflectionStmts \cup ComputeStmts,
                                   k \in 0..Len(u)} :
              u \in SeqsUpTo(SurroundStmts, MaxStmts)}

CodeUnits == SeqsUpTo(BaseStmts, MaxStmts) \cup ExportUnits \cup NestedUnits

\* CodeManager.execute_code, called once on a new CodeManager.
ExecuteCodeCall ==
    /\ pc = "call"
    /\ last' = execute_code(code_to_run, config, dfs, Skills, manager)
    /\ manager' = ManagerAfter(last')
    /\ execCount' = execCount + 1
    /\ pc' = "done"
    /\ UNCHANGED <<inputs, code_to_run, retry_count, result, e, error, cbCount,
                   succeeded, firstFailure, sameFailure, policyMark, aux>>

InitExec ==
    /\ config \in {Config(1, FALSE, sql, custom) :
                      sql \in BOOLEAN, custom \in {{}, {"os"}}}
    /\ dfs \in SourceLists
    /\ on_failure = FALSE
    /\ output_type_helper = ""
    /\ pc = "call"
    /\ code_to_run \in CodeUnits
    /\ retry_count = 0
    /\ result = None
    /\ e = NoError
    /\ error = NoError
    /\ manager = NewManager
    /\ last = NoCall
    /\ execCount = 0
    /\ cbCount = 0
    /\ succeeded = FALSE
    /\ firstFailure = NoError
    /\ sameFailure = TRUE
    /\ policyMark = <<0, 0>>
    /\ extracted = <<>>
    /\ previous = NewManager
    /\ inv = <<>>
    /\ agent = <<>>
    /\ proxy = <<>>

NextExec == ExecuteCodeCall

SpecExec == InitExec /\ [][NextExec]_vars

\* ------------------- one call of execute_code: the execution context
\* Statements that import libraries, refer to sources, use names and call skills.
EnvStmts ==
    {S_ImportNumpy, S_ImportNumpyPlain, S_ImportNumpyMatplotlib, S_FromNumpyArray,
     S_FromMatplotlib, S_ImportPyplot, S_ImportPandas,
     S_ImportNumpyAsPd, S_ImportNumpyAsDfs, S_ImportNumpyAsBuiltins,
     S_UseNumpy, S_UseNp, S_UseScipy,
     S_Result, S_ResultSecond, S_Concat, S_ForDf, S_ResultOne,
     S_SkillExpr, S_SkillAssign, S_SkillNested, S_DefSkill}
EnvUnits == SeqsUpTo(EnvStmts, MaxStmts)
EnvSourceLists ==
    {<<SRC_SALES>>, <<SRC_SALES, SRC_ORDERS>>,
     <<SRC_ORDERS, SRC_ORDER_DETAILS, SRC_PRODUCTS>>}

InitEnv ==
    /\ config \in {Config(1, FALSE, FALSE, custom) : custom \in {{}, {"scipy"}}}
    /\ dfs \in EnvSourceLists
    /\ on_failure = FALSE
    /\ output_type_helper = ""
    /\ pc = "call"
    /\ code_to_run \in EnvUnits
    /\ retry_count = 0
    /\ result = None
    /\ e = NoError
    /\ error = NoError
    /\ manager = NewManager
    /\ last = NoCall
    /\ execCount = 0
    /\ cbCount = 0
    /\ succeeded = FALSE
    /\ firstFailure = NoError
    /\ sameFailure = TRUE
    /\ policyMark = <<0, 0>>
    /\ extracted = <<>>
    /\ previous = NewManager
    /\ inv = <<>>
    /\ agent = <<>>
    /\ proxy = <<>>

NextEnv == ExecuteCodeCall

SpecEnv == InitEnv /\ [][NextEnv]_vars

\* --------------------------- one call of execute_code: filter pushdown
\* Statements that compare, and the assignments the extractor looks at.
FilterStmts ==
    {S_FilterConst, S_FilterX, S_Count, S_FilterMean, S_FilterVar, S_AssignDf,
     S_FilterDf, S_ComparePlain, S_Plain, S_FilterToCsv}
FilterUnits == SeqsUpTo(FilterStmts, MaxLines)
FilterSourceLists == {<<SRC_ORDERS, SRC_PRODUCTS>>, <<SRC_SALES>>}

\* _extract_filters(self._current_code_executed), as _get_originals calls it
\* for each needed source.
ExtractFilters ==
    /\ pc = "done"
    /\ Len(extracted) < MaxExtractions
    /\ LET kept == IF extracted = <<>> THEN <<>>
                   ELSE extracted[Len(extracted)].comparisons
       IN  extracted' = Append(extracted, _extract_filters(manager.current_code_executed, kept))
    /\ UNCHANGED <<inputs, pc, code_to_run, retry_count, result, e, error, manager, last,
                   execCount, cbCount, succeeded, firstFailure, sameFailure, policyMark,
                   previous, inv, agent, proxy>>

InitFilter ==
    /\ config = Config(1, FALSE, FALSE, {})
    /\ dfs \in FilterSourceLists
    /\ on_failure = FALSE
    /\ output_type_helper = ""
    /\ pc = "call"
    /\ code_to_run \in FilterUnits
    /\ retry_count = 0
    /\ result = None
    /\ e = NoError
    /\ error = NoError
    /\ manager = NewManager
    /\ last = NoCall
    /\ execCount = 0
    /\ cbCount = 0
    /\ succeeded = FALSE
    /\ firstFailure = NoError
    /\ sameFailure = TRUE
    /\ policyMark = <<0, 0>>
    /\ extracted = <<>>
    /\ previous = NewManager
    /\ inv = <<>>
    /\ agent = <<>>
    /\ proxy = <<>>

NextFilter ==
    \/ ExecuteCodeCall
    \/ ExtractFilters

SpecFilter == InitFilter /\ [][NextFilter]_vars

\* ------------------------------- repeated calls on one CodeManager
\* Most calls of execute_code made on the manager.
MaxCalls == 3

\* Code units that record dependencies and skills, fail part-way through
\* sanitization, fail in the extractor, fail in the run, and succeed.
SeqUnits ==
    {<<S_ImportNumpy, S_ResultOne>>, <<S_SkillExpr, S_ResultOne>>,
     <<S_ImportNumpy, S_ImportOs>>, <<S_SkillExpr, S_ImportOs>>,
     <<S_FromNumpyArray, S_UseNp>>, <<S_ResultOne>>, <<S_Raise>>, <<S_FilterMean>>}

\* The next call of execute_code on the manager, with the code of a new query.
NextCall ==
    /\ pc = "idle"
    /\ execCount < MaxCalls
    /\ \E code \in SeqUnits :
          /\ code_to_run' = code
          /\ last' = execute_code(code, config, dfs, Skills, manager)
    /\ previous' = manager
    /\ manager' = ManagerAfter(last')
    /\ execCount' = execCount + 1
    /\ UNCHANGED <<inputs, pc, retry_count, result, e, error, cbCount, succeeded,
                   firstFailure, sameFailure, policyMark, extracted, inv, agent, proxy>>

InitSeq ==
    /\ config = Config(1, FALSE, FALSE, {})
    /\ dfs = <<SRC_ORDERS>>
    /\ on_failure = FALSE
    /\ output_type_helper = ""
    /\ pc = "idle"
    /\ code_to_run = <<>>
    /\ retry_count = 0
    /\ result = None
    /\ e = NoError
    /\ error = NoError
    /\ manager = NewManager
    /\ last = NoCall
    /\ execCount = 0
    /\ cbCount = 0
    /\ succeeded = FALSE
    /\ firstFailure = NoError
    /\ sameFailure = TRUE
    /\ policyMark = <<0, 0>>
    /\ extracted = <<>>
    /\ previous = NewManager
    /\ inv = <<>>
    /\ agent = <<>>
    /\ proxy = <<>>

NextSeq == NextCall

SpecSeq == InitSeq /\ [][NextSeq]_vars

\* ---------------------------- overlapping calls of execute_code
\* Two invocations of execute_code run as threads.  inv.discipline tells how
\* the caller runs them: "overlap" (one CodeManager and one skills record,
\* no exclusion), "serialized" (one CodeManager, an invocation starts when
\* no other is in flight), "own" (a CodeManager and a skills record for each
\* invocation).  An invocation advances by the statements of execute_code
\* that read or write the attributes of the manager.
Threads == {1, 2}
Disciplines == {"overlap", "serialized", "own"}

\* The local variables of an invocation: pc, the code given, `code`,
\* `code_to_run`, `environment`, what the invocation raised or returned,
\* and the manager of the invocation when it has its own.
Invocation(code) ==
    [pc |-> "start", given |-> code, code |-> <<>>, code_to_run |-> <<>>,
     environment |-> NoEnvironment, outcome |-> NoError, manager |-> NewManager]

\* self, in invocation t.
Self(t) == IF inv.discipline = "own" THEN inv.calls[t].manager ELSE manager

\* Invocation t moves on with local state `call` and leaves self as `mgr`.
Advance(t, call, mgr) ==
    IF inv.discipline = "own"
    THEN /\ inv' = [inv EXCEPT !.calls[t] = [call EXCEPT !.manager = mgr]]
         /\ manager' = manager
    ELSE /\ inv' = [inv EXCEPT !.calls[t] = call]
         /\ manager' = mgr

Untouched ==
    UNCHANGED <<inputs, pc, code_to_run, retry_count, result, e, error, last, execCount,
                cbCount, succeeded, firstFailure, sameFailure, policyMark, extracted,
                previous, agent, proxy>>

\* code_manager.py 137-155
SetCurrentCode(t) ==
    LET c == inv.calls[t]
        replaced == _replace_plot_png(c.given)
    IN  /\ c.pc = "start"
        /\ inv.discipline = "serialized"
              => \A u \in Threads \ {t} : inv.calls[u].pc \in {"start", "done"}
        /\ Advance(t, [c EXCEPT !.pc = "reset", !.code = add_save_chart(replaced)],
                   [Self(t) EXCEPT !.current_code_executed = replaced])
        /\ Untouched

\* code_manager.py 157-158
ResetSkills(t) ==
    LET c == inv.calls[t]
    IN  /\ c.pc = "reset"
        /\ Advance(t, [c EXCEPT !.pc = "clean"],
                   [Self(t) EXCEPT !.used_skills = ResetUsedSkills(Self(t))])
        /\ Untouched

\* code_manager.py 160-162
CleanCode(t) ==
    LET c == inv.calls[t]
        clean == _clean_code(c.code, config, dfs, Skills, Self(t))
        recorded == [Self(t) EXCEPT !.additional_dependencies = clean.deps,
                                    !.used_skills = clean.used]
    IN  /\ c.pc = "clean"
        /\ IF clean.failure # NoError
           THEN Advance(t, [c EXCEPT !.pc = "done", !.outcome = clean.failure], recorded)
           ELSE Advance(t, [c EXCEPT !.pc = "context", !.code_to_run = clean.new_body],
                        [recorded EXCEPT !.last_code_executed =
                                             LastCodeExecuted(c.given, clean.new_body)])
        /\ Untouched

\* code_manager.py 171-178
BuildContext(t) ==
    LET c == inv.calls[t]
        required == _required_dfs(SourceText(c.code_to_run), dfs)
        originals == _get_originals(required, dfs, Self(t).current_code_executed)
    IN  /\ c.pc = "context"
        /\ IF originals.raised
           THEN Advance(t, [c EXCEPT !.pc = "done",
                                     !.outcome = Failure(FilterExtractionFailure, {})],
                        Self(t))
           ELSE Advance(t, [c EXCEPT !.pc = "skills",
                                     !.environment =
                                         BuildEnvironment(originals,
                                                          Self(t).additional_dependencies,
                                                          {}, config, dfs)],
                        Self(t))
        /\ Untouched

\* code_manager.py 180-184
BindSkills(t) ==
    LET c == inv.calls[t]
    IN  /\ c.pc = "skills"
        /\ Advance(t, [c EXCEPT !.pc = "exec", !.environment.skills = Self(t).used_skills],
                   Self(t))
        /\ Untouched

\* code_manager.py 186-193
RunCode(t) ==
    LET c == inv.calls[t]
        run == ExecFrom(c.code_to_run, 1, c.environment)
    IN  /\ c.pc = "exec"
        /\ Advance(t, [c EXCEPT !.pc = "done",
                                !.outcome = IF run.raised
                                            THEN Failure(RuntimeFailure, run.unresolved)
                                            ELSE ResultOf(run.env)],
                   Self(t))
        /\ Untouched

\* The code of the two queries.
ConcUnits ==
    {<<S_ImportNumpy, S_SkillExpr, S_FilterConst>>, <<S_ImportNumpy, S_UseNp>>,
     <<S_Result>>, <<S_UseNp>>, <<S_SkillAssign>>, <<S_ImportOs>>}

InitConc ==
    /\ config = Config(1, FALSE, FALSE, {})
    /\ dfs = <<SRC_ORDERS>>
    /\ on_failure = FALSE
    /\ output_type_helper = ""
    /\ pc = "idle"
    /\ code_to_run = <<>>
    /\ retry_count = 0
    /\ result = None
    /\ e = NoError
    /\ error = NoError
    /\ manager = NewManager
    /\ last = NoCall
    /\ execCount = 0
    /\ cbCount = 0
    /\ succeeded = FALSE
    /\ firstFailure = NoError
    /\ sameFailure = TRUE
    /\ policyMark = <<0, 0>>
    /\ extracted = <<>>
    /\ previous = NewManager
    /\ inv \in {[discipline |-> d, calls |-> <<Invocation(c1), Invocation(c2)>>] :
                    d \in Disciplines, c1 \in ConcUnits, c2 \in ConcUnits}
    /\ agent = <<>>
    /\ proxy = <<>>

NextConc ==
    \E t \in Threads :
        \/ SetCurrentCode(t)
        \/ ResetSkills(t)
        \/ CleanCode(t)
        \/ BuildContext(t)
        \/ BindSkills(t)
        \/ RunCode(t)

SpecConc == InitConc /\ [][NextConc]_vars

\* ------------------------------------------------------------------ Agent
\* Most messages kept in the conversation memory.
MaxMessages == 2
\* Longest list of questions in an LLM response.
MaxQuestions == 4

\* The text of an LLM response: whether it is wrapped in a ```json fence,
\* what json.loads makes of the text inside, the questions of a list, and
\* whether the word true occurs in it.
Response(fenced, kind, items, has_true) ==
    [fenced |-> fenced, kind |-> kind, items |-> items, has_true |-> has_true]
NoResponse == Response(FALSE, "none", <<>>, FALSE)
R_NotJson == Response(FALSE, "text", <<>>, FALSE)
R_RelatedText == Response(FALSE, "text", <<>>, TRUE)
R_True == Response(FALSE, "true", <<>>, TRUE)
R_False == Response(FALSE, "false", <<>>, FALSE)
R_Object == Response(FALSE, "object", <<>>, FALSE)
R_List(n) == Response(FALSE, "list", [i \in 1..n |-> i], FALSE)
Fenced(r) == [r EXCEPT !.fenced = TRUE]
Responses ==
    {R_NotJson, R_RelatedText, R_True, R_False, R_Object}
        \cup {R_List(n) : n \in 0..MaxQuestions}
        \cup {Fenced(R_List(n)) : n \in 0..MaxQuestions}
        \cup {Fenced(R_NotJson)}

\* What self.lake.llm.call(prompt) does: raise, or return a response.
LLMRaises == [raised |-> TRUE, response |-> NoResponse]
LLMReturns(r) == [raised |-> FALSE, response |-> r]
LLMOutcomes == {LLMRaises} \cup {LLMReturns(r) : r \in Responses}

\* result.replace("```json", "").replace("```", "")
StripFence(r) == [r EXCEPT !.fenced = FALSE]

\* json.loads: the type of the value, "error" for JSONDecodeError.
json_loads(r) ==
    IF r.fenced \/ r.kind \notin {"list", "object", "true", "false"}
    THEN [type |-> "error", items |-> <<>>]
    ELSE [type |-> IF r.kind \in {"true", "false"} THEN "bool" ELSE r.kind,
          items |-> r.items]

\* prompt.validate(output): ClarificationQuestionPrompt accepts a JSON list,
\* the other prompts accept every output (AbstractPrompt.validate).
validate_prompt(prompt, output) ==
    prompt = "clarification" => json_loads(StripFence(output)).type = "list"

\* The list without the slice.
AllQuestions(questions) == questions
\* questions[:3]
FirstThree(questions) == SubSeq(questions, 1, IF Len(questions) < 3 THEN Len(questions) ELSE 3)

\* Values an operation of the Agent returns.
AgentValue(type, str, list, bool) == [type |-> type, str |-> str, list |-> list, bool |-> bool]
NoneValue == AgentValue("None", NoResponse, <<>>, FALSE)
StrValue(r) == AgentValue("str", r, <<>>, FALSE)
ListValue(l) == AgentValue("list", NoResponse, l, FALSE)
BoolValue(b) == AgentValue("bool", NoResponse, <<>>, b)

\* How a call ends: it returns a value or raises.
Returned(v) == [raised |-> FALSE, kind |-> NoFailure, value |-> v]
Raised(kind) == [raised |-> TRUE, kind |-> kind, value |-> NoneValue]

\* A memory that is left as it is.
keep_memory(memory) == memory
\* self.lake.clear_memory() (SmartDatalake, Memory.clear)
clear_memory(memory) == <<>>

\* What the calls of chat on self.lake do: is_related_query or chat raises,
\* or chat returns its answer.
LakeAnswers == {"United States has the highest gdp", "42"}
AnswerValue(text) == AgentValue("answer", NoResponse, <<text>>, FALSE)
NoLake == [called |-> FALSE, end |-> Returned(NoneValue)]
LakeEnds(end) == [called |-> TRUE, end |-> end]
LakeOutcomes ==
    {LakeEnds(Raised(k)) : k \in {"is_related_query failed", "chat failed"}}
        \cup {LakeEnds(Returned(AnswerValue(t))) : t \in LakeAnswers}
        \cup {LakeEnds(Returned(NoneValue))}
\* The memory after self.lake.chat: the query may have been added to it.
MemoryAfterChat(memory) ==
    {memory} \cup IF Len(memory) < MaxMessages
                  THEN {Append(memory, [is_user |-> TRUE])} ELSE {}

\* The message chat returns for a failure (agent/__init__.py 85-89).
ErrorMessage(kind) ==
    AgentValue("str", NoResponse,
               <<"Unfortunately, I was not able to get your answers, because of the following error:",
                 kind>>, FALSE)
\* chat without its except clause: the failure reaches the caller.
NoExceptClause(call) == call
\* agent/__init__.py 80-89: how chat ends when its try block ended with call.
ExceptClause(call) ==
    IF call.raised THEN Returned(ErrorMessage(call.kind)) ELSE call
\* The failure raised inside the try block of chat, NoFailure when none.
RaisedIn(call) == IF call.raised THEN call.kind ELSE NoFailure

NoAgent ==
    [memory |-> <<>>, op |-> "none", pc |-> "idle", prompt |-> "none",
     retry_count |-> 0, llm_calls |-> 0, failures |-> 0, response |-> NoResponse,
     end |-> Returned(NoneValue), before |-> <<>>,
     caught |-> NoFailure, lake |-> NoLake]

\* The start of an operation: the fields of the operation in progress.
Start(a, op, prompt) ==
    [a EXCEPT !.op = op, !.pc = "loop", !.prompt = prompt, !.retry_count = 0,
              !.llm_calls = 0, !.failures = 0, !.response = NoResponse,
              !.end = Returned(NoneValue), !.before = a.memory,
              !.caught = NoFailure, !.lake = NoLake]

\* check_if_related_to_conversation after call_llm_with_prompt (111-121)
RelatedAfter(a, call) ==
    IF call.raised THEN [a EXCEPT !.pc = "done", !.end = call]
    ELSE IF call.value.type # "str"
    THEN [a EXCEPT !.pc = "done", !.end = Raised("TypeError")]
    ELSE LET is_related == call.value.str.has_true
         IN  [a EXCEPT !.pc = "done",
                       !.memory = IF is_related THEN @ ELSE clear_memory(@),
                       !.end = Returned(BoolValue(is_related))]

\* clarification_questions after call_llm_with_prompt (133-140)
ClarificationAfter(a, call) ==
    IF call.raised THEN [a EXCEPT !.pc = "done", !.end = call]
    ELSE IF call.value.type # "str"
    THEN [a EXCEPT !.pc = "done", !.end = Raised("AttributeError")]
    ELSE LET questions == json_loads(StripFence(call.value.str))
         IN  [a EXCEPT !.pc = "done",
                       !.end = IF questions.type = "error" THEN Raised("JSONDecodeError")
                               ELSE IF questions.type # "list" THEN Raised("TypeError")
                               ELSE Returned(ListValue(FirstThree(questions.items)))]

\* chat after call_llm_with_prompt: check_if_related_to_conversation ends,
\* and its failure is caught, or the calls on self.lake follow (80-83).
ChatAfter(a, call) ==
    LET related == RelatedAfter(a, call)
    IN  IF related.end.raised
        THEN [related EXCEPT !.caught = RaisedIn(related.end),
                             !.end = ExceptClause(related.end)]
        ELSE [related EXCEPT !.pc = "lake"]

\* The caller's statements after call_llm_with_prompt has ended with `call`.
After(a, call) ==
    IF a.op = "check_if_related_to_conversation" THEN RelatedAfter(a, call)
    ELSE IF a.op = "chat" THEN ChatAfter(a, call)
    ELSE IF a.op = "clarification_questions" THEN ClarificationAfter(a, call)
    ELSE [a EXCEPT !.pc = "done", !.end = call]

\* agent/__init__.py 61: the loop condition of call_llm_with_prompt.
LLMLoopRuns(cfg, count) == count < cfg.max_retries
\* An except clause that re-raises every failure.
LLMReRaisesAlways(cfg, count) == TRUE
\* agent/__init__.py 69-72: whether the except clause re-raises.
LLMReRaises(cfg, count) ==
    \/ ~cfg.use_error_correction_framework
    \/ count >= cfg.max_retries - 1

\* Agent.add_message
AddMessage ==
    /\ agent.pc \notin {"loop", "lake"}
    /\ Len(agent.memory) < MaxMessages
    /\ \E is_user \in BOOLEAN :
          agent' = [agent EXCEPT !.op = "add_message", !.pc = "done",
                                 !.before = agent.memory,
                                 !.llm_calls = 0, !.failures = 0, !.retry_count = 0,
                                 !.response = NoResponse, !.prompt = "none",
                                 !.end = Returned(NoneValue),
                                 !.memory = Append(@, [is_user |-> is_user])]
    /\ UNCHANGED <<inputs, pc, code_to_run, retry_count, result, e, error, manager, last,
                   execCount, cbCount, succeeded, firstFailure, sameFailure, policyMark,
                   extracted, previous, inv, proxy>>

\* Agent.start_new_conversation
StartNewConversation ==
    /\ agent.pc \notin {"loop", "lake"}
    /\ agent' = [agent EXCEPT !.op = "start_new_conversation", !.pc = "done",
                              !.before = agent.memory,
                              !.llm_calls = 0, !.failures = 0, !.retry_count = 0,
                              !.response = NoResponse, !.prompt = "none",
                              !.end = Returned(NoneValue),
                              !.memory = clear_memory(@)]
    /\ UNCHANGED <<inputs, pc, code_to_run, retry_count, result, e, error, manager, last,
                   execCount, cbCount, succeeded, firstFailure, sameFailure, policyMark,
                   extracted, previous, inv, proxy>>

\* Agent.call_llm_with_prompt called by the application (line 60).
CallLLMWithPrompt ==
    /\ agent.pc \notin {"loop", "lake"}
    /\ \E prompt \in {"explain", "clarification"} :
          agent' = Start(agent, "call_llm_with_prompt", prompt)
    /\ UNCHANGED <<inputs, pc, code_to_run, retry_count, result, e, error, manager, last,
                   execCount, cbCount, succeeded, firstFailure, sameFailure, policyMark,
                   extracted, previous, inv, proxy>>

\* Agent.check_if_related_to_conversation up to its call of
\* call_llm_with_prompt (103-111).
CheckIfRelated ==
    /\ agent.pc \notin {"loop", "lake"}
    /\ agent' = IF Len(agent.memory) = 0
                THEN [Start(agent, "check_if_related_to_conversation", "none")
                         EXCEPT !.pc = "done"]
                ELSE Start(agent, "check_if_related_to_conversation", "relevant")
    /\ UNCHANGED <<inputs, pc, code_to_run, retry_count, result, e, error, manager, last,
                   execCount, cbCount, succeeded, firstFailure, sameFailure, policyMark,
                   extracted, previous, inv, proxy>>

\* Agent.clarification_questions up to its call of call_llm_with_prompt.
ClarificationQuestions ==
    /\ agent.pc \notin {"loop", "lake"}
    /\ agent' = Start(agent, "clarification_questions", "clarification")
    /\ UNCHANGED <<inputs, pc, code_to_run, retry_count, result, e, error, manager, last,
                   execCount, cbCount, succeeded, firstFailure, sameFailure, policyMark,
                   extracted, previous, inv, proxy>>

\* Agent.chat up to the call of call_llm_with_prompt in
\* check_if_related_to_conversation, which returns None at once when the
\* memory is empty (80, 103-104).
Chat ==
    /\ agent.pc \notin {"loop", "lake"}
    /\ agent' = IF Len(agent.memory) = 0
                THEN [Start(agent, "chat", "none") EXCEPT !.pc = "lake"]
                ELSE Start(agent, "chat", "relevant")
    /\ UNCHANGED <<inputs, pc, code_to_run, retry_count, result, e, error, manager, last,
                   execCount, cbCount, succeeded, firstFailure, sameFailure, policyMark,
                   extracted, previous, inv, proxy>>

\* Agent.chat, lines 82-89: the calls on self.lake, and the return.
LakeChat ==
    /\ agent.pc = "lake"
    /\ \E out \in LakeOutcomes, memory \in MemoryAfterChat(agent.memory) :
          agent' = [agent EXCEPT !.pc = "done",
                                 !.lake = out,
                                 !.memory = memory,
                                 !.caught = RaisedIn(out.end),
                                 !.end = ExceptClause(out.end)]
    /\ UNCHANGED <<inputs, pc, code_to_run, retry_count, result, e, error, manager, last,
                   execCount, cbCount, succeeded, firstFailure, sameFailure, policyMark,
                   extracted, previous, inv, proxy>>

\* agent/__init__.py 61-74: one pass of the while body; when the call ends,
\* the caller's remaining statements follow.
LLMCall ==
    /\ agent.pc = "loop"
    /\ LLMLoopRuns(config, agent.retry_count)
    /\ \E out \in LLMOutcomes :
          LET called == [agent EXCEPT !.llm_calls = @ + 1, !.response = out.response]
              failed == [called EXCEPT !.failures = @ + 1]
          IN  IF ~out.raised /\ validate_prompt(agent.prompt, out.response)
              THEN agent' = After(called, Returned(StrValue(out.response)))
              ELSE IF LLMReRaises(config, agent.retry_count)
              THEN agent' = After(failed, Raised(IF out.raised THEN "LLMError"
                                                 ELSE "ValidationFailed"))
              ELSE agent' = [failed EXCEPT !.retry_count = @ + 1]
    /\ UNCHANGED <<inputs, pc, code_to_run, retry_count, result, e, error, manager, last,
                   execCount, cbCount, succeeded, firstFailure, sameFailure, policyMark,
                   extracted, previous, inv, proxy>>

\* The loop condition fails: call_llm_with_prompt returns None.
LLMLoopExit ==
    /\ agent.pc = "loop"
    /\ ~LLMLoopRuns(config, agent.retry_count)
    /\ agent' = After(agent, Returned(NoneValue))
    /\ UNCHANGED <<inputs, pc, code_to_run, retry_count, result, e, error, manager, last,
                   execCount, cbCount, succeeded, firstFailure, sameFailure, policyMark,
                   extracted, previous, inv, proxy>>

InitAgent ==
    /\ config \in {Config(n, ecf, FALSE, {}) : n \in 0..MaxRetries, ecf \in BOOLEAN}
    /\ dfs = <<SRC_ORDERS>>
    /\ on_failure = FALSE
    /\ output_type_helper = ""
    /\ pc = "idle"
    /\ code_to_run = <<>>
    /\ retry_count = 0
    /\ result = None
    /\ e = NoError
    /\ error = NoError
    /\ manager = NewManager
    /\ last = NoCall
    /\ execCount = 0
    /\ cbCount = 0
    /\ succeeded = FALSE
    /\ firstFailure = NoError
    /\ sameFailure = TRUE
    /\ policyMark = <<0, 0>>
    /\ extracted = <<>>
    /\ previous = NewManager
    /\ inv = <<>>
    /\ agent = NoAgent
    /\ proxy = <<>>

NextAgent ==
    \/ AddMessage
    \/ StartNewConversation
    \/ CallLLMWithPrompt
    \/ CheckIfRelated
    \/ ClarificationQuestions
    \/ Chat
    \/ LakeChat
    \/ LLMCall
    \/ LLMLoopExit

SpecAgent == InitAgent /\ [][NextAgent]_vars

\* --------------------------------------------------------- DataframeProxy
\* The number of load_connector calls made on one proxy.
MaxLoads == 4

\* connector.execute(): the dataframe it returns, or the failure it raises.
ConnectorOutcomes == {"dataframe", "raises"}

\* DataframeProxy.__init__: the connector is set, df is None and the
\* attribute partial does not exist yet. executes: the connector.execute()
\* invocations made; log: the load_connector calls made.
NewProxy == [df |-> None, partial |-> "unset", executes |-> 0, log |-> <<>>]

\* One load_connector call: its argument, whether it invoked
\* connector.execute(), and whether it raised.
Load(partial, executed, raised) ==
    [partial |-> partial, executed |-> executed, raised |-> raised]

\* The test of line 76 without `not self.partial`.
LoadedAny(p) == p.df # None
\* dataframe_proxy.py 76: the attribute partial is read only when df is set.
Loaded(p) == p.df # None /\ ~p.partial

\* DataframeProxy.load_connector
load_connector(p, partial, outcome) ==
    IF Loaded(p)
    THEN [p EXCEPT !.log = Append(@, Load(partial, FALSE, FALSE))]
    ELSE IF outcome = "raises"
    THEN [p EXCEPT !.executes = @ + 1,
                   !.log = Append(@, Load(partial, TRUE, TRUE))]
    ELSE [p EXCEPT !.df = outcome,
                   !.partial = partial,
                   !.executes = @ + 1,
                   !.log = Append(@, Load(partial, TRUE, FALSE))]

LoadConnector ==
    /\ Len(proxy.log) < MaxLoads
    /\ \E partial \in BOOLEAN, outcome \in ConnectorOutcomes :
          proxy' = load_connector(proxy, partial, outcome)
    /\ UNCHANGED <<inputs, pc, code_to_run, retry_count, result, e, error, manager, last,
                   execCount, cbCount, succeeded, firstFailure, sameFailure, policyMark,
                   extracted, previous, inv, agent>>

InitProxy ==
    /\ config = Config(1, FALSE, FALSE, {})
    /\ dfs = <<SRC_ORDERS>>
    /\ on_failure = FALSE
    /\ output_type_helper = ""
    /\ pc = "idle"
    /\ code_to_run = <<>>
    /\ retry_count = 0
    /\ result = None
    /\ e = NoError
    /\ error = NoError
    /\ manager = NewManager
    /\ last = NoCall
    /\ execCount = 0
    /\ cbCount = 0
    /\ succeeded = FALSE
    /\ firstFailure = NoError
    /\ sameFailure = TRUE
    /\ policyMark = <<0, 0>>
    /\ extracted = <<>>
    /\ previous = NewManager
    /\ inv = <<>>
    /\ agent = <<>>
    /\ proxy = NewProxy

NextProxy == LoadConnector

SpecProxy == InitProxy /\ [][NextProxy]_vars

\* ------------------------------------------------------------------ claims
Ended == pc \in {"returned", "raised"}
PolicyFailures == {MaliciousQueryError, InvalidConfigError}

\* C1: once an attempt has raised a Malicious-Query or Invalid-Configuration
\* failure, the repair callback is not invoked and no further execute_code
\* call is made: the failure goes to the caller.
C1_PolicyFailurePropagates ==
    policyMark # <<0, 0>> => <<execCount, cbCount>> = policyMark

\* C2: with correction enabled, a callback that always returns code, and
\* max_retries = N >= 1, a run in which every attempt fails with the same
\* failure ends by raising that failure after exactly N execute_code calls.
C2_ExactlyNExecutions ==
    ( /\ Ended
      /\ config.use_error_correction_framework
      /\ on_failure
      /\ config.max_retries >= 1
      /\ ~succeeded
      /\ sameFailure
      /\ error.kind # CallbackFailure )
    => ( /\ pc = "raised"
         /\ execCount = config.max_retries
         /\ error = firstFailure )

C2_Witness ==
    /\ pc = "raised"
    /\ config.use_error_correction_framework
    /\ on_failure
    /\ config.max_retries = 3
    /\ execCount = 3
    /\ cbCount = 4
    /\ sameFailure
    /\ error = firstFailure
    /\ error.kind = NoResultFoundError

\* C3: with correction enabled, the first attempt that succeeds ends the run:
\* if it is attempt k <= max_retries, exactly k executions have been made
\* (the k - 1 before it failed) and the k-th result is what execute returns.
C3_FirstSuccessReturned ==
    (config.use_error_correction_framework /\ succeeded)
    => ( /\ pc = "returned"
         /\ last.outcome = Ok(result)
         /\ execCount = retry_count + 1
         /\ execCount <= config.max_retries )

C3_Witness ==
    /\ pc = "returned"
    /\ config.use_error_correction_framework
    /\ config.max_retries = 3
    /\ succeeded
    /\ execCount = 3
    /\ firstFailure # NoError
    /\ last.outcome = Ok(result)

\* C4: with correction disabled, or at the last permitted attempt, a failing
\* attempt raises its own failure to the caller; with correction disabled
\* one execution is made and the callback is never invoked (max_retries >= 1).
C4_ReRaisedUnchanged ==
    /\ (pc = "raised" /\ error.kind # CallbackFailure) => error = e
    /\ (~config.use_error_correction_framework /\ config.max_retries >= 1 /\ Ended)
          => (execCount = 1 /\ cbCount = 0)
    /\ ~config.use_error_correction_framework => pc # "repair"
    /\ (config.max_retries >= 1 /\ execCount = config.max_retries /\ ~succeeded)
          => (pc = "raised" /\ error = e /\ e # NoError)

C4_Witness ==
    /\ pc = "raised"
    /\ ~config.use_error_correction_framework
    /\ on_failure
    /\ config.max_retries = 3
    /\ execCount = 1
    /\ cbCount = 0
    /\ error = e
    /\ e.kind = RuntimeFailure

\* C5: execute returns a success output only when an execute_code call has
\* succeeded, and the output carries that call's value (every max_retries >= 0).
C5_SuccessNeedsExecution ==
    pc = "returned" => (succeeded /\ last.outcome = Ok(result))

\* What the statements of a code unit do, read off the statements themselves.
Range(seq) == {seq[i] : i \in 1..Len(seq)}
Nested(stmt) == {stmt} \cup Range(stmt.body)
ImportedRoots(stmt) ==
    UNION {IF n.node = "Import" THEN {n.names[i].name[1] : i \in 1..Len(n.names)}
           ELSE IF n.node = "ImportFrom" THEN {n.module[1]}
           ELSE {} : n \in Nested(stmt)}
AllowedRoot(root, cfg) ==
    \/ root = "pandas"
    \/ root \in WHITELISTED_LIBRARIES \cup cfg.custom_whitelisted_dependencies
    \/ root \in WHITELISTED_BUILTINS
DisallowedImports(code, cfg) ==
    {r \in UNION {ImportedRoots(stmt) : stmt \in Range(code)} : ~AllowedRoot(r, cfg)}
QueriedTables(stmt) ==
    {stmt.src[i + 1] : i \in {j \in 1..(Len(stmt.src) - 1) : stmt.src[j] = "FROM"}}
UnauthorizedTables(code, sources) ==
    {t \in UNION {QueriedTables(stmt) : stmt \in Range(code)} :
        \A k \in 1..Len(sources) : sources[k].name # t}
ReassignsDfs(stmt) ==
    /\ stmt.node \in {"Assign", "AugAssign"}
    /\ \E i \in 1..Len(stmt.targets) :
          stmt.targets[i].t = "Name" /\ stmt.targets[i].id = ID_DFS
ExportsData(stmt) == \E n \in Nested(stmt) : n.effect.kind = "export"
IsNotExport(stmt) == ~ExportsData(stmt)
SanitizerFailure(call) == IF call.sanitized THEN NoError ELSE call.outcome

\* C6: code importing a module that no allow-list permits never reaches
\* exec, and execute_code fails; when the failure is BadImportError it names
\* such a module (another sanitizer failure may come first).
C6_DisallowedImportRejected ==
    (pc = "done" /\ DisallowedImports(code_to_run, config) # {})
    => ( /\ ~last.executed
         /\ last.outcome.kind \in {BadImportError} \cup PolicyFailures
         /\ last.outcome.kind = BadImportError
               => last.outcome.arg \subseteq DisallowedImports(code_to_run, config) )

\* C7: in direct-SQL mode, code with a query string that refers to a table
\* that is no configured source never reaches exec, and execute_code fails;
\* when the failure is MaliciousQueryError it names such a table (another
\* sanitizer failure may come first).
C7_UnauthorizedTableRejected ==
    (pc = "done" /\ config.direct_sql /\ UnauthorizedTables(code_to_run, dfs) # {})
    => ( /\ ~last.executed
         /\ last.outcome.kind \in {BadImportError} \cup PolicyFailures
         /\ last.outcome.kind = MaliciousQueryError
               => last.outcome.arg \cap UnauthorizedTables(code_to_run, dfs) # {} )

\* C8: in direct-SQL mode with sources that are not all SQL connectors of
\* the same credentials, exec is never invoked, whatever the code, and
\* execute_code fails (with InvalidConfigError unless an import failed first).
C8_InvalidConfigBeforeExecution ==
    ( /\ pc = "done"
      /\ config.direct_sql
      /\ \E i \in 1..Len(dfs) : ~dfs[i].sql \/ dfs[i].cred # dfs[1].cred )
    => ( /\ ~last.executed
         /\ last.outcome.kind \in {InvalidConfigError, BadImportError} )

\* C9: no statement that assigns to dfs, in any form, is in the code handed
\* to exec, and dfs is bound there to the list derived from the sources.
C9_DfsNeverReassigned ==
    (pc = "done" /\ last.executed)
    => ( /\ \A stmt \in Range(last.code_to_run) : ~ReassignsDfs(stmt)
         /\ Len(last.environment.dfs) = Len(dfs)
         /\ \A i \in 1..Len(dfs) : last.environment.dfs[i] \in {dfs[i].name, None} )

C11_ResultBindingRequired ==
    /\ last.outcome.kind = "ok"
          => ( /\ last.executed
               /\ last.env_after.result # NoValue
               /\ last.outcome = Ok(last.env_after.result) )
    /\ (last.completed /\ last.env_after.result = NoValue)
          => last.outcome = Failure(NoResultFoundError, {})
    /\ (pc = "raised" /\ on_failure /\ error.kind = NoResultFoundError)
          => ( \/ ~config.use_error_correction_framework
               \/ retry_count >= config.max_retries - 1 )

\* A first attempt that ran without binding result, was repaired, and a
\* later attempt returned its value.
C11_Witness ==
    /\ pc = "returned"
    /\ succeeded
    /\ firstFailure = Failure(NoResultFoundError, {})
    /\ execCount = 2
    /\ last.outcome = Ok("1")

\* The libraries an import may name: the built-in list and the configured ones.
AllowList(cfg) == WHITELISTED_LIBRARIES \cup cfg.custom_whitelisted_dependencies

\* C12: when the run raises for an unresolved name that is an allow-listed
\* library, execute_code binds the library and runs the sanitized code once
\* more (two runs in the attempt, the library bound afterwards); after any
\* other run, exec has been invoked once.
C12_SelfHealOnce ==
    (pc = "done" /\ last.executed)
    => IF last.first_unresolved \cap AllowList(config) # {}
       THEN /\ last.exec_runs = 2
            /\ \A lib \in last.first_unresolved : <<lib>> \in last.env_after.aliases
       ELSE last.exec_runs = 1

\* The sources a code unit refers to, read off its statements: all of them
\* under one of the two all-sources idioms, else those named by position.
UsesAllSources(code) ==
    \E stmt \in Range(code) :
        \/ Contains(stmt.src, <<"for", "df", "in", "dfs">>)
        \/ Contains(stmt.src, <<"pd", ".", "concat", "(", "dfs", ")">>)
RefersTo(code, i) ==
    \E stmt \in Range(code) : Contains(stmt.src, <<"dfs", "[", Digits[i], "]">>)

\* C13: dfs is bound to one entry per configured source, in order; a source
\* that the sanitized code reaches neither through an all-sources idiom nor
\* by its position gets no filters, is not materialized, and its entry is
\* the placeholder None.
C13_UnreferencedNotMaterialized ==
    (pc = "done" /\ last.executed)
    => ( /\ Len(last.environment.dfs) = Len(dfs)
         /\ \A i \in 1..Len(dfs) :
               (~UsesAllSources(last.code_to_run) /\ ~RefersTo(last.code_to_run, i))
               => (i \notin last.materialized /\ last.environment.dfs[i] = None)
         /\ \A i \in last.materialized : last.environment.dfs[i] = dfs[i].name )

\* Three sources and code that refers to the first alone.
C13_Witness ==
    /\ pc = "done"
    /\ Len(dfs) = 3
    /\ last.code_to_run = <<S_Result>>
    /\ last.materialized = {1}
    /\ last.environment.dfs = <<"orders", None, None>>
    /\ last.outcome = Ok("table")

\* The names a statement calls: each name that an opening parenthesis follows.
CalledNames(stmt) ==
    {stmt.src[i] : i \in {j \in 1..(Len(stmt.src) - 1) : stmt.src[j + 1] = "("}}
CalledSkills(code) ==
    {f \in Skills : \E stmt \in Range(code) : f \in CalledNames(stmt)}

\* C18: the skills bound in the execution context, and the skills reported
\* as used, are exactly the registered skills that the sanitized code calls,
\* wherever the call stands in a statement.
C18_CalledSkillsBound ==
    (pc = "done" /\ last.executed)
    => ( /\ last.environment.skills = CalledSkills(last.code_to_run)
         /\ last.used_skills = CalledSkills(last.code_to_run) )

\* The dependency records of an import statement, read off the statement:
\* one per imported symbol, with the module the symbol comes from.
SymbolAlias(a) == IF a.asname # "" THEN <<a.asname>> ELSE a.name
ImportedSymbols(stmt) ==
    IF stmt.node = "Import"
    THEN [i \in 1..Len(stmt.names) |->
             Dependency(stmt.names[i].name, stmt.names[i].name, SymbolAlias(stmt.names[i]))]
    ELSE IF stmt.node = "ImportFrom"
    THEN [i \in 1..Len(stmt.names) |->
             Dependency(stmt.module, stmt.names[i].name, SymbolAlias(stmt.names[i]))]
    ELSE <<>>
ExpectedDependencies(code, cfg) ==
    Flatten([i \in 1..Len(code) |->
                IF ImportedRoots(code[i]) \subseteq AllowList(cfg)
                THEN ImportedSymbols(code[i]) ELSE <<>>])

\* C19: the dependency records of an attempt are, in order, one record per
\* symbol of each top-level import of an allow-listed library, each naming
\* the module the symbol was imported from; every record's alias is bound in
\* the execution context; an import of pandas adds no record.
C19_OneRecordPerSymbol ==
    (pc = "done" /\ last.executed)
    => ( /\ last.additional_dependencies = ExpectedDependencies(code_to_run, config)
         /\ \A k \in 1..Len(last.additional_dependencies) :
               last.additional_dependencies[k].alias \in DOMAIN last.environment.libs )

\* The outcome of the sanitized code of a unit on its needed sources, each
\* loaded whole: no filter is extracted and none is set.
UnfilteredOutcome(code, cfg, sources) ==
    LET clean == _clean_code(add_save_chart(_replace_plot_png(code)), cfg, sources,
                             Skills, NewManager)
        required == _required_dfs(SourceText(clean.new_body), sources)
        originals ==
            [raised |-> FALSE,
             dfs |-> [i \in 1..Len(sources) |-> IF required[i] THEN sources[i].name ELSE None],
             filters |-> [i \in 1..Len(sources) |-> <<>>],
             rows |-> [i \in 1..Len(sources) |-> IF required[i] THEN "all" ELSE None]]
        run == ExecFrom(clean.new_body, 1,
                        BuildEnvironment(originals, clean.deps, clean.used, cfg, sources))
    IN  IF run.raised THEN Failure(RuntimeFailure, run.unresolved) ELSE ResultOf(run.env)

\* C14: for a code unit that passes sanitization, execute_code with filter
\* extraction and pushdown ends as the sanitized code does on the needed
\* sources loaded whole: the same value or the same failure.
C14_PushdownKeepsOutcome ==
    (pc = "done" /\ last.sanitized)
    => last.outcome = UnfilteredOutcome(code_to_run, config, dfs)

C16_NoLeakAcrossCalls ==
    execCount >= 1
    => LET own == execute_code(code_to_run, config, dfs, Skills, NewManager)
       IN  /\ manager.additional_dependencies = own.additional_dependencies
           /\ manager.used_skills = own.used_skills
           /\ last.executed
                 => ( /\ last.environment.libs = own.environment.libs
                      /\ last.environment.skills = own.environment.skills )

\* A third call whose code imports nothing and calls no skill, on a manager
\* that the call before, failing in sanitization, left with a dependency
\* record.
C16_Witness ==
    /\ execCount = 3
    /\ previous.additional_dependencies # <<>>
    /\ previous.current_code_executed = <<S_ImportNumpy, S_ImportOs>>
    /\ previous.last_code_executed # NoCode
    /\ code_to_run = <<S_ResultOne>>
    /\ last.executed
    /\ last.environment.libs = <<>>
    /\ last.environment.skills = {}

\* C20: after a call that invoked exec, whether the run succeeded or failed,
\* last_code_executed is the sanitized code handed to exec; after a call
\* that failed in sanitization it is what it was before the call.
C20_LastCodeExecuted ==
    execCount >= 1
    => ( /\ last.executed => manager.last_code_executed = last.code_to_run
         /\ last.executed
               => last.code_to_run
                     = _clean_code(add_save_chart(_replace_plot_png(code_to_run)),
                                   config, dfs, Skills, NewManager).new_body
         /\ ~last.sanitized => manager.last_code_executed = previous.last_code_executed )

\* A failed sanitization after a run that raised: the code of the run stays.
C20_Witness ==
    /\ execCount = 2
    /\ ~last.sanitized
    /\ last.outcome.kind = BadImportError
    /\ previous.last_code_executed = <<S_Raise>>
    /\ manager.last_code_executed = <<S_Raise>>

\* What an invocation ends with when nothing else touches its manager.
OwnCall(t) == execute_code(inv.calls[t].given, config, dfs, Skills, NewManager)

\* C17: when the invocations on a CodeManager are serialized, or each has
\* its own CodeManager and skills record, every invocation ends with the
\* outcome, and with the execution context, that its own code yields.
C17_ExclusiveCallsKeepOwnContext ==
    inv.discipline \in {"serialized", "own"}
    => \A t \in Threads :
          inv.calls[t].pc = "done"
          => ( /\ inv.calls[t].outcome = OwnCall(t).outcome
               /\ inv.calls[t].environment = OwnCall(t).environment )

\* Overlapping invocations on one CodeManager: the first, given
\* `result = dfs[0]`, has run in a context that binds the library and the
\* skill of the other's code and has loaded its source under the other's filter.
C17_Witness ==
    /\ inv.discipline = "overlap"
    /\ inv.calls[1].pc = "done"
    /\ inv.calls[1].given = <<S_Result>>
    /\ inv.calls[2].given = <<S_ImportNumpy, S_SkillExpr, S_FilterConst>>
    /\ inv.calls[1].environment.aliases = {<<"np">>}
    /\ inv.calls[1].environment.skills = {"plot_salaries"}
    /\ inv.calls[1].environment.filters = <<<<<<"salary", ">", "5">>>>>>
    /\ OwnCall(1).environment.aliases = {}
    /\ OwnCall(1).environment.filters = <<<<>>>>

\* C21: with error correction enabled and max_retries = N >= 1,
\* call_llm_with_prompt calls the LLM one call after another until the first
\* response that is returned without error and passes prompt.validate: while
\* it is calling, every call so far has failed; when it returns, the last
\* call is the first good one, it is at most the N-th, and its response is
\* the value returned; when it raises, exactly N calls were made and all
\* failed.
C21_CallsUntilFirstValid ==
    ( /\ agent.op = "call_llm_with_prompt"
      /\ config.use_error_correction_framework
      /\ config.max_retries >= 1 )
    => /\ agent.pc = "loop"
          => /\ agent.llm_calls = agent.failures
             /\ agent.llm_calls < config.max_retries
       /\ (agent.pc = "done" /\ ~agent.end.raised)
          => /\ agent.llm_calls = agent.failures + 1
             /\ agent.llm_calls <= config.max_retries
             /\ validate_prompt(agent.prompt, agent.response)
             /\ agent.end.value = StrValue(agent.response)
       /\ (agent.pc = "done" /\ agent.end.raised)
          => /\ agent.llm_calls = config.max_retries
             /\ agent.failures = config.max_retries
\* The third of three permitted calls is the first to return a list of
\* questions for the clarification prompt.
C21_Witness ==
    /\ agent.op = "call_llm_with_prompt" /\ agent.pc = "done"
    /\ config.use_error_correction_framework /\ config.max_retries = 3
    /\ agent.prompt = "clarification"
    /\ agent.llm_calls = 3 /\ agent.failures = 2
    /\ ~agent.end.raised /\ agent.end.value = StrValue(R_List(2))

\* C22: with use_error_correction_framework disabled, call_llm_with_prompt
\* calls the LLM exactly once, and a call that raises or whose response fails
\* validation ends the operation with that failure.
C22_ExactlyOneCall ==
    ( /\ agent.op = "call_llm_with_prompt"
      /\ agent.pc = "done"
      /\ ~config.use_error_correction_framework )
    => /\ agent.llm_calls = 1
       /\ agent.failures = 1 => agent.end.raised

\* C23: after start_new_conversation the memory is empty whatever it held
\* before; after check_if_related_to_conversation has judged the query
\* unrelated the memory is empty; and check_if_related_to_conversation on an
\* empty memory makes no LLM call.
C23_MemoryCleared ==
    /\ (agent.op = "start_new_conversation" /\ agent.pc = "done")
       => agent.memory = <<>>
    /\ ( /\ agent.op = "check_if_related_to_conversation"
         /\ agent.pc = "done"
         /\ agent.end = Returned(BoolValue(FALSE)) )
       => agent.memory = <<>>
    /\ (agent.op = "check_if_related_to_conversation" /\ agent.before = <<>>)
       => /\ agent.llm_calls = 0
          /\ agent.pc = "done"
\* A query is judged unrelated on the second LLM call with two messages in
\* the memory.
C23_Witness ==
    /\ agent.op = "check_if_related_to_conversation" /\ agent.pc = "done"
    /\ Len(agent.before) = 2
    /\ agent.llm_calls = 2
    /\ agent.end = Returned(BoolValue(FALSE))
    /\ agent.memory = <<>>

\* C24: clarification_questions returns at most 3 questions: when the LLM
\* response it received is a JSON list of n questions it returns the first
\* min(n, 3) of them in order, and when the response is not valid JSON it
\* raises.
C24_AtMostThreeQuestions ==
    ( /\ agent.op = "clarification_questions"
      /\ agent.pc = "done"
      /\ agent.llm_calls > 0 )
    => LET parsed == json_loads(StripFence(agent.response))
           n == Len(parsed.items)
       IN  /\ ~agent.end.raised
              => /\ agent.end.value.type = "list"
                 /\ Len(agent.end.value.list) <= 3
           /\ (agent.response # NoResponse /\ json_loads(agent.response).type = "list")
              => /\ ~agent.end.raised
                 /\ Len(agent.end.value.list) = (IF n < 3 THEN n ELSE 3)
                 /\ \A i \in 1..Len(agent.end.value.list) :
                       agent.end.value.list[i] = parsed.items[i]
           /\ (agent.response # NoResponse /\ parsed.type = "error")
              => agent.end.raised
\* A list of four questions is cut to its first three.
C24_Witness ==
    /\ agent.op = "clarification_questions" /\ agent.pc = "done"
    /\ agent.response = R_List(4)
    /\ agent.end = Returned(ListValue(<<1, 2, 3>>))

\* C25: with correction enabled and a repair callback, every failed attempt
\* that is not the last permitted one is followed by exactly one invocation
\* of the callback before the next attempt: when the loop is about to make an
\* attempt the callback has been invoked once per attempt made so far, and
\* when the run has ended there were one fewer invocations than executions.
C25_OneCallbackPerFailedAttempt ==
    (on_failure /\ config.use_error_correction_framework)
    => /\ (pc = "loop" /\ LoopRuns(config, retry_count)) => cbCount = execCount
       /\ (pc = "returned" /\ execCount >= 1) => cbCount = execCount - 1
       /\ (pc = "raised" /\ error.kind # CallbackFailure) => cbCount = execCount - 1

\* C26: the retry loop is bounded and strictly sequential: every run ends
\* (returns or raises), the number of execute_code calls never exceeds
\* max_retries, and an attempt is begun only from the head of the loop, after
\* every earlier attempt has ended and its repair callback has returned.
C26_BoundedSequentialLoop ==
    /\ [](execCount <= config.max_retries)
    /\ <>(pc \in {"returned", "raised"})
    /\ [][execCount' # execCount
            => /\ pc = "loop"
               /\ execCount' = execCount + 1
               /\ retry_count = execCount
               /\ cbCount >= execCount]_vars
\* The third of three permitted attempts has failed after two repairs.
C26_Witness ==
    /\ config.max_retries = 3 /\ config.use_error_correction_framework /\ on_failure
    /\ pc = "raised"
    /\ execCount = 3
    /\ retry_count = 2
    /\ cbCount = 4
    /\ error = last.outcome

\* The assignments of the form name = dfs[i], for the name of the operand,
\* that stand on a line before the comparison.
PrecedingSourceAssignments(code, lineno, name) ==
    {k \in 1..Len(Assignments(code)) :
        /\ Assignments(code)[k].lineno < lineno
        /\ AssignsDfsItem(Assignments(code)[k].node, name)}
\* The source a comparison belongs to: that of the nearest preceding
\* assignment name = dfs[i], source 0 when there is none.
SourceOfComparison(code, located) ==
    LET before == PrecedingSourceAssignments(code, located.lineno,
                                             Unpack(located.node.left).name)
        nearest == CHOOSE k \in before : \A j \in before : j <= k
    IN  IF before = {} THEN DfLabel("0")
        ELSE DfLabel(Assignments(code)[nearest].node.value_op.slices[1].value)
\* The comparisons the extractor records: those with a subscript on the left.
RecordedComparisons(code) ==
    SelectSeq(Comparisons(code), LAMBDA c : c.node.left.slices # <<>>)

\* C27: in every run of the filter extractor that returns, each comparison is
\* recorded under the source of the nearest preceding assignment
\* name = dfs[i] of its left operand's name, and under source 0 when there is
\* no such assignment, whatever source the comparisons before it were
\* recorded under.
C27_UnresolvedRecordedUnderZero ==
    \A r \in 1..Len(extracted) :
        ~extracted[r].raised
        => LET code == manager.current_code_executed
               nodes == RecordedComparisons(code)
           IN  /\ Len(extracted[r].comparisons) = Len(nodes)
               /\ \A k \in 1..Len(nodes) :
                     extracted[r].comparisons[k].df = SourceOfComparison(code, nodes[k])

\* C28: the pushdown predicates set on a source in a call that reached the
\* executor are those the filter extractor finds in the code the sanitizer
\* produced for that call, so a comparison that stands only in a statement
\* the sanitizer dropped gives no predicate to any source.
C28_FiltersFromSanitizedCode ==
    (pc = "done" /\ last.executed)
    => LET sanitized == _extract_filters(last.code_to_run, <<>>)
       IN  \A i \in last.materialized :
              last.environment.filters[i]
                  = FiltersOf(sanitized.comparisons, DfLabel(Digits[i]))

\* C29: a failure of the filter extractor is surfaced apart from the retry
\* loop and never replaced by an empty predicate map: a call whose text the
\* extractor fails on, with a source to load, ends with the extraction
\* failure before the code is run, and the run then ends with that failure
\* raised to the caller, no repair being asked for it.
C29_ExtractionFailureSurfacedSeparately ==
    /\ ( /\ last.sanitized
         /\ _extract_filters(last.current_code_executed, <<>>).raised
         /\ \E i \in 1..Len(dfs) : _required_dfs(SourceText(last.code_to_run), dfs)[i] )
       => /\ last.outcome.kind = FilterExtractionFailure
          /\ ~last.executed
    /\ last.outcome.kind = FilterExtractionFailure
       => /\ pc = "raised"
          /\ error = last.outcome

\* The positions in `steps` of the calls of `op` on source `index`.
StepsAt(steps, op, index) ==
    {p \in 1..Len(steps) : steps[p].op = op /\ steps[p].index = index}

\* C30: within a call of execute_code that reaches the executor the calls
\* are made in a fixed order: the sanitizer first, having raised nothing;
\* then, source by source in index order and for the needed sources only,
\* set_additional_filters with the predicates extracted for that index and
\* right after it execute; the executor last and once, on the sanitizer's
\* output.  A call in which the sanitizer or the extractor raised runs
\* nothing.
C30_FixedOrderWithinAttempt ==
    LET steps == last.steps
        needed == {i \in 1..Len(dfs) : _required_dfs(SourceText(last.code_to_run), dfs)[i]}
        found == _extract_filters(last.current_code_executed, <<>>)
        cleaned == _clean_code(add_save_chart(last.current_code_executed), config, dfs,
                               Skills, NewManager)
    IN  /\ last.exec_runs = Cardinality(StepsAt(steps, "exec", 0))
        /\ last.exec_runs <= 1
        /\ ~last.executed => last.exec_runs = 0
        /\ last.executed
           => /\ last.sanitized
              /\ cleaned.failure = NoError
              /\ last.code_to_run = cleaned.new_body
              /\ StepsAt(steps, "_clean_code", 0) = {1}
              /\ StepsAt(steps, "exec", 0) = {Len(steps)}
              /\ Len(steps) = 2 + 2 * Cardinality(needed)
              /\ last.materialized = needed
              /\ \A i \in 1..Len(dfs) :
                    IF i \in needed
                    THEN \E p \in 2..(Len(steps) - 2) :
                            /\ StepsAt(steps, "set_additional_filters", i) = {p}
                            /\ StepsAt(steps, "execute", i) = {p + 1}
                            /\ steps[p].filters
                                  = FiltersOf(found.comparisons, DfLabel(Digits[i]))
                            /\ \A j \in needed : j < i
                                  => \A q \in StepsAt(steps, "execute", j) : q < p
                    ELSE /\ StepsAt(steps, "set_additional_filters", i) = {}
                         /\ StepsAt(steps, "execute", i) = {}
\* Both sources of a two-source engine are needed, the first with a
\* predicate and the second without, and the code has run.
C30_Witness ==
    /\ pc = "done" /\ last.executed /\ last.completed
    /\ Len(dfs) = 2
    /\ last.materialized = {1, 2}
    /\ last.steps = <<Step("_clean_code", 0, <<>>),
                      Step("set_additional_filters", 1, <<<<"salary", ">", "5">>>>),
                      Step("execute", 1, <<<<"salary", ">", "5">>>>),
                      Step("set_additional_filters", 2, <<>>),
                      Step("execute", 2, <<>>),
                      Step("exec", 0, <<>>)>>

\* A statement one of the sanitizer's drop rules matches.
MatchesDropRule(stmt) ==
    _is_df_overwrite(stmt) \/ _is_jailbreak(stmt) \/ _is_unsafe(stmt)
KeptByDropRules(stmt) == ~MatchesDropRule(stmt)
IsCompute(stmt) == stmt.node = "FunctionDef" /\ stmt.fname = "analyze_data"
\* The bodies of the definitions of analyze_data in a code unit, in order.
ComputeBodies(code) ==
    LET defs == SelectSeq(code, IsCompute)
    IN  [i \in 1..Len(defs) |-> defs[i].body]

\* C31: the drop rules reach the statements nested in the body of the
\* compute function: in the sanitized code each definition of analyze_data
\* is still there, its body being the original body without the statements a
\* drop rule matches, the others in their original order.
C31_NestedStatementsDropped ==
    (pc = "done" /\ last.sanitized)
    => LET before == ComputeBodies(code_to_run)
       IN  ComputeBodies(last.code_to_run) =
               [i \in 1..Len(before) |-> SelectSeq(before[i], KeptByDropRules)]

\* A statement whose structure holds, at any depth, a reflection token.
HoldsReflectionToken(stmt) ==
    \E n \in Nested(stmt) : \E i \in 1..Len(n.src) : n.src[i] \in DANGEROUS_BUILTINS
NoReflectionToken(stmt) == ~HoldsReflectionToken(stmt)
IsImport(stmt) == stmt.node \in {"Import", "ImportFrom"}
ImportOrNoReflectionToken(stmt) == IsImport(stmt) \/ ~HoldsReflectionToken(stmt)

\* C32 as stated: no statement holding a reflection token survives
\* sanitization, and none raises a failure: the sanitized code, and the
\* sanitizer's failure if any, are those of the code without these statements,
\* the remaining statements in their order.
C32_ReflectionDroppedSilently ==
    pc = "done"
    => LET without == _clean_code(add_save_chart(_replace_plot_png(
                                      SelectSeq(code_to_run, NoReflectionToken))),
                                  config, dfs, Skills, NewManager)
       IN  /\ \A stmt \in Range(last.code_to_run) : ~HoldsReflectionToken(stmt)
           /\ SanitizerFailure(last) = without.failure
           /\ last.sanitized => last.code_to_run = without.new_body

\* C32 amended: no statement holding a reflection token survives
\* sanitization; one that is no import statement is dropped without a
\* failure, the remaining statements keeping their order (an import statement
\* goes through the import rules, which remove it or reject the code).
C32_ReflectionNeverSurvives ==
    pc = "done"
    => LET without == _clean_code(add_save_chart(_replace_plot_png(
                                      SelectSeq(code_to_run, ImportOrNoReflectionToken))),
                                  config, dfs, Skills, NewManager)
       IN  /\ \A stmt \in Range(last.code_to_run) : ~HoldsReflectionToken(stmt)
           /\ SanitizerFailure(last) = without.failure
           /\ last.sanitized => last.code_to_run = without.new_body

C32_Witness ==
    /\ pc = "done"
    /\ code_to_run = <<S_Plain, S_Subclasses, S_Result>>
    /\ last.executed
    /\ last.code_to_run = <<S_Plain, S_Result>>
    /\ last.outcome = Ok("table")

\* C33: the context handed to exec holds the reserved bindings: __builtins__
\* is the safe subset, dfs the list derived from the sources, index by
\* index, and pd the pandas library, whatever aliases the code's imports record.
C33_ReservedBindingsKept ==
    (pc = "done" /\ last.executed)
    => ( /\ last.environment.builtins = "WHITELISTED_BUILTINS"
         /\ Len(last.environment.dfs) = Len(dfs)
         /\ \A i \in 1..Len(dfs) : last.environment.dfs[i] \in {dfs[i].name, None}
         /\ last.environment.pd = "pandas" )

\* Whether the statements of a code unit bind the name result: by an
\* assignment at top level, or by an import under that alias.
BindsResult(code) ==
    \E stmt \in Range(code) :
        \/ /\ stmt.node = "Assign"
           /\ \E i \in 1..Len(stmt.targets) : stmt.targets[i].id = ID_RESULT
        \/ /\ IsImport(stmt)
           /\ \E i \in 1..Len(stmt.names) :
                 ID_RESULT \in {<<stmt.names[i].asname>>, stmt.names[i].name}

\* C34: each attempt runs in a context of its own: the context handed to
\* exec holds no binding of result left by an earlier attempt (it holds one
\* only when an import of the attempt's own code records that alias), so an
\* attempt returns a value only when its own code binds result.
C34_ContextFreshPerAttempt ==
    (execCount >= 1 /\ last.executed)
    => ( /\ last.environment.result # NoValue
               => ( /\ last.environment.result = "module"
                    /\ \E stmt \in Range(last.current_code_executed) : IsImport(stmt) )
         /\ ~BindsResult(last.current_code_executed)
               => ( /\ last.environment.result = NoValue
                    /\ last.env_after.result = NoValue
                    /\ last.outcome.kind # "ok" ) )

\* The first attempt bound result to a value the helper rejected; the second
\* attempt's code binds nothing and fails for want of a result.
C34_Witness ==
    /\ execCount = 2
    /\ firstFailure.kind = InvalidLLMOutputType
    /\ result = "table"
    /\ last.executed
    /\ last.code_to_run = <<S_Plain>>
    /\ last.environment.result = NoValue
    /\ last.outcome.kind = NoResultFoundError

\* C35: without a repair callback, with correction enabled and attempts
\* left, the failure of the first failing attempt is raised to the caller as
\* it was caught, after one execution and no callback invocation; a failure
\* raised by the callback ends the loop as well; and once a failure is raised
\* to the caller no execution follows.
C35_NoRepairEndsLoop ==
    /\ []( ( /\ pc = "raised"
             /\ ~on_failure
             /\ config.use_error_correction_framework
             /\ config.max_retries >= 2 )
           => ( /\ execCount = 1
                /\ cbCount = 0
                /\ error = TryBlock(last, output_type_helper)
                /\ error = firstFailure ) )
    /\ [](error.kind = CallbackFailure => (pc = "raised" /\ execCount = retry_count))
    /\ [][pc = "raised" => execCount' = execCount]_vars

C35_Witness ==
    /\ pc = "raised"
    /\ ~on_failure
    /\ config.use_error_correction_framework
    /\ config.max_retries = MaxRetries
    /\ execCount = 1
    /\ retry_count = 1
    /\ error.kind = NoResultFoundError
    /\ last.executed

\* C36: with an output-type helper, a value execute returns is the value of
\* its last execution and the helper accepts it (without any execution, None
\* is returned and nothing was validated); an execution whose value the helper
\* rejects is a failed attempt with InvalidLLMOutputType, which goes to the
\* repair step when correction is enabled and executions are left, and is
\* raised to the caller otherwise.
C36_InvalidResultNeverReturned ==
    /\ []( (pc = "returned" /\ output_type_helper # "")
           => ( \/ execCount = 0 /\ result = None
                \/ /\ last.outcome = Ok(result)
                   /\ validate(output_type_helper, result) ) )
    /\ [][ ( /\ execCount' = execCount + 1
             /\ output_type_helper # ""
             /\ last'.outcome.kind = "ok"
             /\ \E v \in last'.outcome.arg : ~validate(output_type_helper, v) )
           => ( /\ e' = Failure(InvalidLLMOutputType, {})
                /\ pc' = IF /\ config.use_error_correction_framework
                            /\ execCount' < config.max_retries
                         THEN "repair" ELSE "raised"
                /\ pc' = "raised" => error' = Failure(InvalidLLMOutputType, {}) ) ]_vars

\* The helper rejected the value of the first execution, the callback gave
\* new code, and the value of the last execution is rejected and raised.
C36_Witness ==
    /\ pc = "raised"
    /\ output_type_helper = "number"
    /\ error = Failure(InvalidLLMOutputType, {})
    /\ firstFailure = Failure(InvalidLLMOutputType, {})
    /\ execCount = config.max_retries
    /\ execCount >= 2
    /\ cbCount >= 2
    /\ last.outcome = Ok("table")

\* Some load_connector call with partial=False has completed.
FullLoadCompleted(p) ==
    \E i \in 1..Len(p.log) : ~p.log[i].partial /\ ~p.log[i].raised
LastLoad(p) == p.log[Len(p.log)]

\* C37: once a load_connector call with partial=False has completed, no
\* later call invokes connector.execute(); the call that follows a call with
\* partial=True that ran the connector invokes it again (a call with
\* partial=True after a completed full load runs nothing, and neither does
\* the next); and the first call on a new proxy invokes it.
C37_FullLoadCached ==
    /\ [][ (FullLoadCompleted(proxy) /\ Len(proxy'.log) = Len(proxy.log) + 1)
           => ( /\ proxy'.executes = proxy.executes
                /\ ~LastLoad(proxy').executed
                /\ proxy'.df = proxy.df ) ]_vars
    /\ [][ ( /\ Len(proxy.log) > 0
             /\ LastLoad(proxy).partial
             /\ LastLoad(proxy).executed
             /\ Len(proxy'.log) = Len(proxy.log) + 1 )
           => ( /\ LastLoad(proxy').executed
                /\ proxy'.executes = proxy.executes + 1 ) ]_vars
    /\ [](Len(proxy.log) >= 1 => proxy.log[1].executed)

\* A partial load, then a full load that runs the connector again, then a
\* partial and a full call that do not.
C37_Witness ==
    /\ proxy.log = <<Load(TRUE, TRUE, FALSE), Load(FALSE, TRUE, FALSE),
                     Load(TRUE, FALSE, FALSE), Load(FALSE, FALSE, FALSE)>>
    /\ proxy.executes = 2
    /\ proxy.partial = FALSE

\* C38: chat never raises to its caller: when its check of relatedness or a
\* call on the lake raised, it returns a message text that holds the text of
\* that failure; otherwise the lake's chat was called and chat returns the
\* very value it returned.
C38_ChatNeverRaises ==
    (agent.op = "chat" /\ agent.pc = "done")
    => ( /\ ~agent.end.raised
         /\ agent.caught # NoFailure
               => ( /\ agent.end.value.type = "str"
                    /\ agent.caught \in Range(agent.end.value.list)
                    /\ agent.lake.called => agent.lake.end.raised )
         /\ agent.caught = NoFailure
               => ( /\ agent.lake.called
                    /\ ~agent.lake.end.raised
                    /\ agent.end.value = agent.lake.end.value ) )

\* With no LLM call allowed, the relatedness check fails on the None it
\* gets, and chat returns the message for that failure.
C38_Witness ==
    /\ agent.op = "chat" /\ agent.pc = "done"
    /\ config.max_retries = 0
    /\ Len(agent.before) > 0
    /\ agent.llm_calls = 0
    /\ ~agent.lake.called
    /\ agent.caught = "TypeError"
    /\ agent.end = Returned(ErrorMessage("TypeError"))

=============================================================================
